---- MODULE Spec2Model ----
(***************************************************************************)
(* Namespace ownership verification: MCPVerificationSystem (dispatcher and *)
(* batch), GitHubOAuthVerifier, DnsTxtVerifier and HttpWellKnownVerifier.  *)
(*                                                                         *)
(* Python strings whose characters matter (namespaces, tokens, TXT         *)
(* records) are sequences of one-character strings; messages built by      *)
(* f-strings are sequences of chunks (the literal text, then the           *)
(* interpolated value).  An Optional value is a set: {} is None and {v} is *)
(* the value v.  Time is counted in seconds.  Every blocking network       *)
(* request is one step of the model; the code running between two requests *)
(* belongs to the step of the request that precedes it (or to the step     *)
(* that enters the call).                                                  *)
(***************************************************************************)
EXTENDS Integers, Sequences, FiniteSets, TLC

VARIABLES
    pc,          \* position of the single thread of control
    entry,       \* which public method the caller invoked
    namespaces,  \* batch_verify: the list argument
    tokens,      \* batch_verify: the Optional mapping namespace -> token
    idx,         \* batch_verify: 1-based position of the for loop
    results,     \* batch_verify: the list being built
    cur,         \* arguments of the verify_namespace call in progress
    frame,       \* local variables of the verifier call in progress
    ret,         \* Optional value returned to the caller
    raised,      \* Optional exception that escaped to the caller
    caught,      \* Optional exception the dispatcher's except clause caught
    netlog,      \* outbound requests issued since the call was entered
    clock,       \* system time, seconds
    drawn,       \* number of values the system's random source has handed out
    verifiers    \* attributes of the three verifier instances

vars == <<pc, entry, namespaces, tokens, idx, results, cur, frame, ret,
          raised, caught, netlog, clock, drawn, verifiers>>

----------------------------------------------------------------------------
(* Bounds of the model *)

MaxBatch == 2
MaxClock == 1

----------------------------------------------------------------------------
(* Python values *)

None == {}
Some(v) == {v}
Unwrap(o) == CHOOSE v \in o : TRUE
\* truth value of an Optional[str]: None and "" are false
PyTrue(o) == o # None /\ o # Some(<<>>)

startswith(s, p) == Len(s) >= Len(p) /\ SubSeq(s, 1, Len(p)) = p
\* s[n:]
SliceFrom(s, n) == SubSeq(s, n + 1, Len(s))
\* "x" in s, for a one-character x
Contains(s, ch) == \E i \in 1..Len(s) : s[i] = ch
\* s.split(ch)[0]
SplitFirst(s, ch) ==
    IF Contains(s, ch)
    THEN SubSeq(s, 1, (CHOOSE i \in 1..Len(s) :
                         s[i] = ch /\ \A j \in 1..(i - 1) : s[j] # ch) - 1)
    ELSE s

\* JSON values as the json module decodes them: a tag and the value's text
JStr(s) == [t |-> "str", v |-> s]
JBool(b) == [t |-> "bool", v |-> IF b THEN <<"true">> ELSE <<"false">>]
JNum(n) == [t |-> "num", v |-> <<ToString(n)>>]
JNull == [t |-> "null", v |-> <<>>]
\* truth value of a decoded JSON value
JTrue(j) ==
    CASE j.t = "bool" -> j.v = <<"true">>
      [] j.t = "str" -> j.v # <<>>
      [] j.t = "num" -> j.v # <<"0">>
      [] OTHER -> FALSE
\* d.get(key, default) on a decoded JSON object
DictGet(d, key, default) == IF key \in DOMAIN d THEN d[key] ELSE default

\* datetime.isoformat() + "Z" of the instant t
IsoZ(t) == <<ToString(t), "Z">>
\* timedelta(days = d), in seconds
timedelta(d) == d * 86400

----------------------------------------------------------------------------
(* Literals of the source *)

IoGithubPrefix == <<"i", "o", ".", "g", "i", "t", "h", "u", "b", ".">>
ComPrefix == <<"c", "o", "m", ".">>
OrgPrefix == <<"o", "r", "g", ".">>
NetPrefix == <<"n", "e", "t", ".">>

GITHUB_OAUTH == "github-oauth"
DNS_TXT == "dns-txt"
HTTP_WELL_KNOWN == "http-well-known"


----------------------------------------------------------------------------
(* Inputs: namespaces, secrets and the responses of the outside world *)

NsUser == IoGithubPrefix \o <<"a">>
NsOrg == IoGithubPrefix \o <<"o", ".", "t">>
NsGhBare == IoGithubPrefix
NsGhNoDot == <<"i", "o", ".", "g", "i", "t", "h", "u", "b">>
NsCom == ComPrefix \o <<"b">>
NsOrgDom == OrgPrefix \o <<"b">>
NsNet == NetPrefix \o <<"b">>
NsComBare == ComPrefix
NsComNoDot == <<"c", "o", "m">>
NsUpper == <<"C", "o", "m", ".", "b">>
NsInfix == <<"x">> \o ComPrefix \o <<"b">>
NsOther == <<"n", "o", "t", ".", "a">>
NsEmpty == <<>>

Namespaces ==
    {NsUser, NsOrg, NsGhBare, NsGhNoDot, NsCom, NsOrgDom, NsNet, NsComBare,
     NsComNoDot, NsUpper, NsInfix, NsOther, NsEmpty}
\* the namespaces batches are built from
BatchNamespaces == {NsUser, NsCom, NsOther}

TokA == <<"t", "1">>
TokB == <<"t", "2">>
\* a token of decimal digits only
TokDigits == <<"1">>
OAuthTok == <<"g", "h", "o">>
\* an Optional[str] argument: None, "" or a value
OptTokens == {None, Some(<<>>), Some(TokA)}
OptOAuth == {None, Some(<<>>), Some(OAuthTok)}
\* the Optional[Dict[str, str]] argument of batch_verify; a dict is a function
TokenMaps == {None, Some(<<>>), Some([n \in {NsCom} |-> TokA])}
\* secrets.token_hex(16): the n-th value the random source hands out; the
\* source never repeats a 128-bit value
token_hex(n) == <<"r", ToString(n)>>

RECURSIVE SeqsUpTo(_, _)
SeqsUpTo(S, n) ==
    IF n = 0 THEN {<<>>}
    ELSE LET shorter == SeqsUpTo(S, n - 1)
         IN  shorter \cup {Append(q, x) : q \in shorter, x \in S}

LoginA == <<"a">>
LoginZ == <<"z">>
LoginUpper == <<"A">>

NetErr(msg) == [kind |-> "neterr", msg |-> msg]
HttpResp(status, body) == [kind |-> "http", status |-> status, body |-> body]
JsonObject(d) == [t |-> "dict", d |-> d]
JsonArray == [t |-> "list", v |-> <<>>]
\* a body response.json() cannot decode; exc is the class the installed
\* requests raises for it (a RequestException subclass, or a bare ValueError)
NotJson(exc) == [t |-> "notjson", exc |-> exc]

UserBodies ==
    {JsonObject([login |-> JStr(LoginA)]),
     JsonObject([login |-> JStr(LoginA), active |-> JBool(TRUE)]),
     JsonObject([login |-> JStr(LoginA), active |-> JBool(FALSE)]),
     JsonObject([login |-> JStr(LoginA), active |-> JNull]),
     JsonObject([login |-> JStr(LoginZ)]),
     JsonObject([login |-> JStr(LoginUpper), active |-> JBool(FALSE)]),
     JsonObject([message |-> JStr(<<"x">>)]),
     JsonArray,
     NotJson("RequestException"), NotJson("ValueError")}
UserResponses ==
    {NetErr(<<"timed out">>), HttpResp(401, JsonObject([message |-> JStr(<<"x">>)]))}
    \cup {HttpResp(200, b) : b \in UserBodies}
MemberResponses ==
    {NetErr(<<"timed out">>), HttpResp(204, NotJson("ValueError")),
     HttpResp(404, JsonObject([message |-> JStr(<<"x">>)])),
     HttpResp(200, JsonArray)}
OrgInfoResponses ==
    {NetErr(<<"timed out">>), HttpResp(200, JsonObject([login |-> JStr(<<"o">>)])),
     HttpResp(404, JsonObject([message |-> JStr(<<"x">>)])),
     HttpResp(200, NotJson("ValueError"))}

----------------------------------------------------------------------------
(* Result records *)

\* github-oauth-verifier.py VerificationResult
VerificationResult(success, namespace, verified_at, expires_at, token, error) ==
    [success |-> success, namespace |-> namespace,
     verification_method |-> GITHUB_OAUTH,
     verified_at |-> verified_at, expires_at |-> expires_at,
     verification_token |-> token, error_message |-> error]

\* verification-system.py NamespaceVerification; details is {} for the empty
\* dict and {r} for asdict(r)
NamespaceVerification(namespace, method, success, verified_at, expires_at, token, details, error) ==
    [namespace |-> namespace, verification_method |-> method,
     success |-> success, verified_at |-> verified_at,
     expires_at |-> expires_at, verification_token |-> token,
     details |-> details, error_message |-> error]

\* the failed result the dispatcher builds itself
DispatcherFailure(namespace, method, message) ==
    NamespaceVerification(namespace, method, FALSE, <<>>, <<>>, Some(<<>>),
                          {}, Some(message))

\* a copy that leaves error_message to its default, None
FromDelegate_no_error(result) ==
    NamespaceVerification(result.namespace, result.verification_method,
                          result.success, result.verified_at,
                          result.expires_at, result.verification_token,
                          {result}, None)

\* the dispatcher's copy of a delegate's result
FromDelegate(result) ==
    NamespaceVerification(result.namespace, result.verification_method,
                          result.success, result.verified_at,
                          result.expires_at, result.verification_token,
                          {result}, result.error_message)

\* an except clause that drops str(e)
SystemError_no_message(namespace, method, exc) ==
    DispatcherFailure(namespace, method, <<"Verification system error">>)

\* except Exception as e, around the delegation
SystemError(namespace, method, exc) ==
    DispatcherFailure(namespace, method,
                      <<"Verification system error: ">> \o exc)

----------------------------------------------------------------------------
(* MCPVerificationSystem: pure parts *)

\* a routing that forgets the dot that ends each prefix
determine_verification_method_nodot(namespace) ==
    IF startswith(namespace, SubSeq(IoGithubPrefix, 1, 9)) THEN Some(GITHUB_OAUTH)
    ELSE IF \/ startswith(namespace, SubSeq(ComPrefix, 1, 3))
            \/ startswith(namespace, SubSeq(OrgPrefix, 1, 3))
            \/ startswith(namespace, SubSeq(NetPrefix, 1, 3)) THEN Some(DNS_TXT)
    ELSE None

determine_verification_method(namespace) ==
    IF startswith(namespace, IoGithubPrefix) THEN Some(GITHUB_OAUTH)
    ELSE IF \/ startswith(namespace, ComPrefix)
            \/ startswith(namespace, OrgPrefix)
            \/ startswith(namespace, NetPrefix) THEN Some(DNS_TXT)
    ELSE None

\* what verify_namespace does before any delegation: it returns a failure of
\* its own, or calls the verifier of the method
Delegate(method, to) == [kind |-> "delegate", method |-> method, to |-> to]
Fail(method, nv) == [kind |-> "return", method |-> method, value |-> nv]

\* a dispatcher without the check for "no method"
unsupported_unchecked(method) == FALSE
\* if not method
unsupported(method) == method = None

\* a check that takes only None, not "", for a missing secret
missing_only_none(secret) == secret = None
\* if not oauth_token, if not verification_token
missing(secret) == ~PyTrue(secret)

dispatch(namespace, verification_token, oauth_token) ==
    LET method == determine_verification_method(namespace) IN
    IF unsupported(method)
    THEN Fail(method, DispatcherFailure(namespace, "none",
                          <<"Unsupported namespace format">>))
    ELSE IF method = Some(GITHUB_OAUTH)
    THEN IF missing(oauth_token)
         THEN Fail(method, DispatcherFailure(namespace, GITHUB_OAUTH,
                      <<"OAuth token required for GitHub verification">>))
         ELSE Delegate(method, "github_verify")
    ELSE IF method = Some(DNS_TXT)
    THEN IF missing(verification_token)
         THEN Fail(method, DispatcherFailure(namespace, DNS_TXT,
                      <<"Verification token required for DNS verification">>))
         ELSE Delegate(method, "dns_verify")
    ELSE IF missing(verification_token)
         THEN Fail(method, DispatcherFailure(namespace, HTTP_WELL_KNOWN,
                      <<"Verification token required for HTTP verification">>))
         ELSE Delegate(method, "http_verify")

\* a lookup that falls back on a token of its own when there is no mapping
TokenLookup_default(tks, namespace) ==
    IF tks = None \/ tks = Some(<<>>) THEN Some(TokA)
    ELSE IF namespace \in DOMAIN Unwrap(tks) THEN Some(Unwrap(tks)[namespace])
    ELSE None

\* tokens.get(namespace) if tokens else None
TokenLookup(tks, namespace) ==
    IF tks = None \/ tks = Some(<<>>) THEN None
    ELSE IF namespace \in DOMAIN Unwrap(tks) THEN Some(Unwrap(tks)[namespace])
    ELSE None

----------------------------------------------------------------------------
(* GitHubOAuthVerifier: pure parts *)

\* sha256(f"{subject}:{timestamp}:{token_hex}").hexdigest(), kept as the
\* digest of its preimage
generate_verification_token(subject, timestamp, rand) ==
    <<"sha256:">> \o subject \o <<":", ToString(timestamp), ":">> \o rand

\* what a step of a verifier leads to: a return value, an exception that
\* leaves the verifier, or the next request
Return(success, data) == [kind |-> "return", success |-> success, data |-> data]
Raise(exc) == [kind |-> "raise", exc |-> exc]
Goto(next, user_data) == [kind |-> "goto", next |-> next, user_data |-> user_data]
ErrorDict(message) == [error |-> message]

\* a request without the except clause: the error leaves the verifier
RequestFailed_raises(msg) == Raise(msg)

RequestFailed(msg) == Return(FALSE, ErrorDict(<<"Request failed: ">> \o msg))
JsonError(body) ==
    IF body.exc = "RequestException"
    THEN RequestFailed(<<"Expecting value: line 1 column 1 (char 0)">>)
    ELSE Raise(<<"Expecting value: line 1 column 1 (char 0)">>)

\* a verify_github_user that looks at the active flag before the login
verify_github_user_active_first(username, response) ==
    IF response.kind = "neterr" THEN RequestFailed(response.msg)
    ELSE IF response.status # 200
    THEN Return(FALSE, ErrorDict(<<"GitHub API error: ", ToString(response.status)>>))
    ELSE IF response.body.t = "notjson" THEN JsonError(response.body)
    ELSE IF response.body.t # "dict"
    THEN Raise(<<"'list' object has no attribute 'get'">>)
    ELSE LET user_data == response.body.d IN
         IF ~JTrue(DictGet(user_data, "active", JBool(TRUE)))
         THEN Return(FALSE, ErrorDict(<<"User account is not active">>))
         ELSE IF DictGet(user_data, "login", JNull) # JStr(username)
         THEN Return(FALSE, ErrorDict(<<"Username mismatch">>))
         ELSE Return(TRUE, user_data)

verify_github_user(username, response) ==
    IF response.kind = "neterr" THEN RequestFailed(response.msg)
    ELSE IF response.status # 200
    THEN Return(FALSE, ErrorDict(<<"GitHub API error: ", ToString(response.status)>>))
    ELSE IF response.body.t = "notjson" THEN JsonError(response.body)
    ELSE IF response.body.t # "dict"
    THEN Raise(<<"'list' object has no attribute 'get'">>)
    ELSE LET user_data == response.body.d IN
         IF DictGet(user_data, "login", JNull) # JStr(username)
         THEN Return(FALSE, ErrorDict(<<"Username mismatch">>))
         ELSE IF ~JTrue(DictGet(user_data, "active", JBool(TRUE)))
         THEN Return(FALSE, ErrorDict(<<"User account is not active">>))
         ELSE Return(TRUE, user_data)

\* verify_github_organization up to the membership request: the /user
\* response, then the URL of the membership request
org_user_step(response) ==
    IF response.kind = "neterr" THEN RequestFailed(response.msg)
    ELSE IF response.status # 200
    THEN Return(FALSE, ErrorDict(<<"GitHub API error: ", ToString(response.status)>>))
    ELSE IF response.body.t = "notjson" THEN JsonError(response.body)
    ELSE IF response.body.t # "dict"
    THEN Raise(<<"list indices must be integers or slices, not str">>)
    ELSE IF "login" \notin DOMAIN response.body.d THEN Raise(<<"'login'">>)
    ELSE Goto("gh_org_member", Some(response.body.d))

\* a membership check that takes any 2xx answer for the signal
org_member_step_accepts_200(user_data, response) ==
    IF response.kind = "neterr" THEN RequestFailed(response.msg)
    ELSE IF response.status \notin {200, 204}
    THEN Return(FALSE, ErrorDict(<<"Not a member of the organization">>))
    ELSE Goto("gh_org_info", user_data)

org_member_step(user_data, response) ==
    IF response.kind = "neterr" THEN RequestFailed(response.msg)
    ELSE IF response.status # 204
    THEN Return(FALSE, ErrorDict(<<"Not a member of the organization">>))
    ELSE Goto("gh_org_info", user_data)

\* an organization request that is tried again when it is refused
org_info_step_retries(org_name, user_data, response) ==
    IF response.kind = "neterr" THEN RequestFailed(response.msg)
    ELSE IF response.status # 200 THEN Goto("gh_org_info", user_data)
    ELSE IF response.body.t = "notjson" THEN JsonError(response.body)
    ELSE Return(TRUE, [user |-> user_data, organization |-> response.body,
                       role |-> <<"member">>])

org_info_step(org_name, user_data, response) ==
    IF response.kind = "neterr" THEN RequestFailed(response.msg)
    ELSE IF response.status # 200
    THEN Return(FALSE, ErrorDict(<<"Organization not found: ">> \o org_name))
    ELSE IF response.body.t = "notjson" THEN JsonError(response.body)
    ELSE Return(TRUE, [user |-> user_data, organization |-> response.body,
                       role |-> <<"member">>])

\* a prefix check that forgets the dot that ends the prefix
parse_namespace_nodot(namespace) ==
    IF ~startswith(namespace, SubSeq(IoGithubPrefix, 1, 9)) THEN [kind |-> "invalid"]
    ELSE LET namespace_part == SliceFrom(namespace, 10) IN
         IF Contains(namespace_part, ".")
         THEN [kind |-> "gh_org_user", subject |-> SplitFirst(namespace_part, ".")]
         ELSE [kind |-> "gh_user", subject |-> namespace_part]

\* verify_namespace: the prefix check and the choice of the path
parse_namespace(namespace) ==
    IF ~startswith(namespace, IoGithubPrefix) THEN [kind |-> "invalid"]
    ELSE LET namespace_part == SliceFrom(namespace, 10) IN
         IF Contains(namespace_part, ".")
         THEN [kind |-> "gh_org_user", subject |-> SplitFirst(namespace_part, ".")]
         ELSE [kind |-> "gh_user", subject |-> namespace_part]

GitHubInvalidFormat(namespace) ==
    VerificationResult(FALSE, namespace, <<>>, <<>>, Some(<<>>),
        Some(<<"Invalid namespace format for GitHub OAuth verification">>))

\* a failure that leaves out the token of the attempt
GitHubFailure_no_token(namespace, token, data) ==
    VerificationResult(FALSE, namespace, <<>>, <<>>, Some(<<>>),
        Some(DictGet(data, "error", <<"Verification failed">>)))

\* a failure that is stamped with the time all the same
GitHubFailure_stamped(namespace, token, data) ==
    VerificationResult(FALSE, namespace, IsoZ(clock), <<>>, Some(token),
        Some(DictGet(data, "error", <<"Verification failed">>)))

GitHubFailure(namespace, token, data) ==
    VerificationResult(FALSE, namespace, <<>>, <<>>, Some(token),
        Some(DictGet(data, "error", <<"Verification failed">>)))

\* a success whose two stamps come from two readings of the time
GitHubSuccess_two_readings(namespace, token, now, validity_period) ==
    VerificationResult(TRUE, namespace, IsoZ(clock), IsoZ(now + validity_period),
                       Some(token), None)

GitHubSuccess(namespace, token, now, validity_period) ==
    VerificationResult(TRUE, namespace, IsoZ(now), IsoZ(now + validity_period),
                       Some(token), None)


----------------------------------------------------------------------------
(* DnsTxtVerifier and HttpWellKnownVerifier: inputs *)

Quote == "\""
TxtPrefix ==
    <<"m", "c", "p", "-", "r", "e", "g", "i", "s", "t", "r", "y", "-",
      "v", "e", "r", "i", "f", "i", "c", "a", "t", "i", "o", "n">>
\* the text str(rdata) of a TXT rdata holding value
Rdata(value) == <<Quote>> \o value \o <<Quote>>
RdMatch == Rdata(TxtPrefix \o <<"=">> \o TokA)
RdWrong == Rdata(TxtPrefix \o <<"=">> \o TokB)
RdOther == Rdata(<<"s", "p", "f">>)
RdLonger == Rdata(TxtPrefix \o <<"=">> \o TokA \o <<"x">>)

\* what one resolver.resolve(domain, 'TXT') does
Answer(rdatas) == [kind |-> "answer", rdatas |-> rdatas]
DnsFailure(exc) == [kind |-> exc]
Resolutions ==
    {Answer(<<RdOther, RdMatch>>), Answer(<<RdWrong, RdLonger>>), Answer(<<RdOther>>),
     DnsFailure("NXDOMAIN"), DnsFailure("NoAnswer"), DnsFailure("Timeout"),
     DnsFailure("Exception")}

\* a body that is not JSON
Text(chars) == [t |-> "text", v |-> chars]
FetchBodies ==
    {JsonObject([token |-> JStr(TokA)]), JsonObject([token |-> JStr(TokB)]),
     JsonObject([auth_token |-> JStr(TokA), token |-> JNull]),
     JsonObject([other |-> JStr(TokA)]),
     Text(TokA \o <<"\n">>), Text(TokB), JStr(TokA), JNum(1), JNull, JsonArray}
FetchResponses ==
    {NetErr(<<"Timeout">>), NetErr(<<"ConnectionError">>),
     NetErr(<<"RequestException">>), HttpResp(404, Text(<<"x">>))}
    \cup {HttpResp(200, b) : b \in FetchBodies}

----------------------------------------------------------------------------
(* DnsTxtVerifier: pure parts *)

\* s.strip(chars)
RECURSIVE lstrip(_, _)
lstrip(s, chars) ==
    IF s # <<>> /\ Head(s) \in chars THEN lstrip(Tail(s), chars) ELSE s
RECURSIVE rstrip(_, _)
rstrip(s, chars) ==
    IF s # <<>> /\ s[Len(s)] \in chars
    THEN rstrip(SubSeq(s, 1, Len(s) - 1), chars) ELSE s
strip(s, chars) == rstrip(lstrip(s, chars), chars)
Whitespace == {" ", "\n", "\t", "\r"}

\* str(x) inside an f-string, for an Optional[str]
Format(o) == IF o = None THEN <<"N", "o", "n", "e">> ELSE Unwrap(o)
\* s.split(ch, 1)[1]
AfterFirst(s, ch) ==
    SliceFrom(s, CHOOSE i \in 1..Len(s) :
                   s[i] = ch /\ \A j \in 1..(i - 1) : s[j] # ch)

\* an extraction that leaves the "net." branch out
extract_domain_from_namespace_no_net(namespace) ==
    IF startswith(namespace, ComPrefix) THEN Some(SliceFrom(namespace, 4))
    ELSE IF startswith(namespace, OrgPrefix) THEN Some(SliceFrom(namespace, 4))
    ELSE None

\* DnsTxtVerifier.extract_domain_from_namespace
extract_domain_from_namespace(namespace) ==
    IF startswith(namespace, ComPrefix) THEN Some(SliceFrom(namespace, 4))
    ELSE IF startswith(namespace, OrgPrefix) THEN Some(SliceFrom(namespace, 4))
    ELSE IF startswith(namespace, NetPrefix) THEN Some(SliceFrom(namespace, 4))
    ELSE None

\* a get_txt_records with one except clause for every failure
get_txt_records_one_error(domain, resolution) ==
    IF resolution.kind = "answer"
    THEN <<TRUE, [i \in DOMAIN resolution.rdatas |->
                    strip(resolution.rdatas[i], {Quote})], None>>
    ELSE <<FALSE, <<>>, Some(<<"DNS query failed: ", "resolver error">>)>>

\* (success, txt_records, error) of get_txt_records
get_txt_records(domain, resolution) ==
    CASE resolution.kind = "answer" ->
           <<TRUE, [i \in DOMAIN resolution.rdatas |->
                      strip(resolution.rdatas[i], {Quote})], None>>
      [] resolution.kind = "NXDOMAIN" ->
           <<FALSE, <<>>, Some(<<"Domain ">> \o domain \o <<" does not exist">>)>>
      [] resolution.kind = "NoAnswer" ->
           <<FALSE, <<>>, Some(<<"No TXT records found for ">> \o domain)>>
      [] resolution.kind = "Timeout" ->
           <<FALSE, <<>>, Some(<<"DNS query timeout for ">> \o domain)>>
      [] OTHER ->
           <<FALSE, <<>>, Some(<<"DNS query failed: ", "resolver error">>)>>

\* a verify_txt_record that takes a record that starts with the expected one
verify_txt_record_prefix_match(prefix, domain, expected_token, resolution) ==
    LET got == get_txt_records(domain, resolution)
        txt_records == got[2]
        expected_record == prefix \o <<"=">> \o Format(expected_token)
    IN  IF ~got[1] THEN <<FALSE, <<>>, got[3]>>
        ELSE IF \E i \in DOMAIN txt_records : startswith(txt_records[i], expected_record)
        THEN <<TRUE, txt_records, None>>
        ELSE <<FALSE, txt_records,
               Some(<<"Verification TXT record not found. Expected: ">>
                    \o expected_record)>>

\* (success, txt_records, error) of verify_txt_record, whose own
\* get_txt_records got resolution
verify_txt_record(prefix, domain, expected_token, resolution) ==
    LET got == get_txt_records(domain, resolution)
        txt_records == got[2]
        expected_record == prefix \o <<"=">> \o Format(expected_token)
        Matches(record) ==
            /\ record = expected_record \/ startswith(record, prefix \o <<"=">>)
            /\ Some(IF Contains(record, "=") THEN AfterFirst(record, "=")
                    ELSE <<>>) = expected_token
    IN  IF ~got[1] THEN <<FALSE, <<>>, got[3]>>
        ELSE IF \E i \in DOMAIN txt_records : Matches(txt_records[i])
        THEN <<TRUE, txt_records, None>>
        ELSE <<FALSE, txt_records,
               Some(<<"Verification TXT record not found. Expected: ">>
                    \o expected_record)>>

DNSVerificationResult(success, namespace, domain, verified_at, expires_at, token, txt_records, error) ==
    [success |-> success, namespace |-> namespace, domain |-> domain,
     verification_method |-> DNS_TXT, verified_at |-> verified_at,
     expires_at |-> expires_at, verification_token |-> token,
     txt_records |-> txt_records, error_message |-> error]

----------------------------------------------------------------------------
(* HttpWellKnownVerifier: pure parts *)

\* HttpWellKnownVerifier.extract_domain_from_namespace
http_extract_domain_from_namespace(namespace) ==
    IF startswith(namespace, ComPrefix) THEN Some(SliceFrom(namespace, 4))
    ELSE IF startswith(namespace, OrgPrefix) THEN Some(SliceFrom(namespace, 4))
    ELSE IF startswith(namespace, NetPrefix) THEN Some(SliceFrom(namespace, 4))
    ELSE None

build_endpoint_url(domain, path, use_https) ==
    <<IF use_https THEN "https" ELSE "http", "://">> \o domain \o path

\* response.json(), or response.text.strip() when the body is not JSON
ParseBody(body) == IF body.t = "text" THEN JStr(strip(body.v, Whitespace)) ELSE body

\* a decoded JSON value == an Optional[str], as Python compares them
PyEq(j, o) == IF o = None THEN j = JNull ELSE j = JStr(Unwrap(o))

verify_token_in_response(content, expected_token) ==
    IF content.t = "dict"
    THEN \/ PyEq(DictGet(content.d, "token", JNull), expected_token)
         \/ PyEq(DictGet(content.d, "verification_token", JNull), expected_token)
         \/ PyEq(DictGet(content.d, "mcp_registry_token", JNull), expected_token)
         \/ PyEq(DictGet(content.d, "auth_token", JNull), expected_token)
    ELSE IF content.t = "str"
    THEN Some(strip(content.v, Whitespace)) = expected_token
    ELSE FALSE

\* str(content)
PyStr(content) == IF content.t = "str" THEN content.v ELSE <<ToString(content)>>

HTTPVerificationResult(success, namespace, domain, verified_at, expires_at, token, endpoint_url, http_status, response_content, error) ==
    [success |-> success, namespace |-> namespace, domain |-> domain,
     verification_method |-> HTTP_WELL_KNOWN, verified_at |-> verified_at,
     expires_at |-> expires_at, verification_token |-> token,
     endpoint_url |-> endpoint_url, http_status |-> http_status,
     response_content |-> response_content, error_message |-> error]

----------------------------------------------------------------------------
(* State *)

NoCall == [namespace |-> <<>>, verification_token |-> None, oauth_token |-> None]
\* the locals of a verifier call; responses lists what the requests of the
\* call have been answered so far
NoFrame ==
    [method |-> None, verification_token |-> <<>>, subject |-> <<>>,
     user_data |-> None, domain |-> None, txt_records |-> <<>>,
     responses |-> <<>>]

\* the attributes the three constructors set
Constructed ==
    [github |-> [github_api_base |-> <<"https://api.github.com">>,
                 verification_timeout |-> 3600,
                 validity_period |-> timedelta(365)],
     dns |-> [verification_timeout |-> 3600,
              validity_period |-> timedelta(365),
              txt_record_prefix |-> TxtPrefix],
     http |-> [verification_timeout |-> 3600,
               validity_period |-> timedelta(365),
               well_known_path |-> <<"/.well-known/mcp-registry-auth">>,
               request_timeout |-> 30]]

Init ==
    /\ pc = "idle"
    /\ entry = "none"
    /\ namespaces = <<>>
    /\ tokens = None
    /\ idx = 0
    /\ results = <<>>
    /\ cur = NoCall
    /\ frame = NoFrame
    /\ ret = None
    /\ raised = None
    /\ caught = None
    /\ netlog = <<>>
    /\ clock = 0
    /\ drawn = 0
    /\ verifiers = Constructed

\* one outbound request of the entry being verified
Request(service, url) == [entry |-> idx, service |-> service, url |-> url]

Answered(response) == [frame EXCEPT !.responses = Append(@, response)]

----------------------------------------------------------------------------
(* How a call ends.  These set pc, ret, raised, caught, results and idx. *)

\* a loop that puts each result in front of the list
DispatcherReturn_prepend(nv) ==
    IF entry \in {"batch_verify", "main_batch"}
    THEN /\ results' = <<nv>> \o results
         /\ idx' = idx + 1
         /\ pc' = "loop"
         /\ UNCHANGED <<ret, raised>>
    ELSE /\ ret' = Some(nv)
         /\ pc' = "done"
         /\ UNCHANGED <<results, idx, raised>>

\* MCPVerificationSystem.verify_namespace returns nv: to the caller, or into
\* the loop of batch_verify (results.append)
DispatcherReturn(nv) ==
    IF entry \in {"batch_verify", "main_batch"}
    THEN /\ results' = Append(results, nv)
         /\ idx' = idx + 1
         /\ pc' = "loop"
         /\ UNCHANGED <<ret, raised>>
    ELSE /\ ret' = Some(nv)
         /\ pc' = "done"
         /\ UNCHANGED <<results, idx, raised>>

\* a verifier returns result: to the caller when it was called directly, to
\* the dispatcher otherwise
VerifierReturn(result) ==
    /\ UNCHANGED caught
    /\ IF entry \in {"batch_verify", "main_batch", "verify_namespace"}
       THEN DispatcherReturn(FromDelegate(result))
       ELSE /\ ret' = Some(result)
            /\ pc' = "done"
            /\ UNCHANGED <<results, idx, raised>>

\* a dispatcher without the try/except around the delegation
VerifierRaise_propagate(exc) ==
    /\ raised' = Some(exc)
    /\ pc' = "done"
    /\ UNCHANGED <<results, idx, ret, caught>>

\* an exception leaves a verifier: the dispatcher's except clause catches
\* it, a direct caller gets it
VerifierRaise(exc) ==
    IF entry \in {"batch_verify", "main_batch", "verify_namespace"}
    THEN /\ caught' = Some(exc)
         /\ DispatcherReturn(SystemError(cur.namespace, Unwrap(frame.method), exc))
    ELSE /\ raised' = Some(exc)
         /\ pc' = "done"
         /\ UNCHANGED <<results, idx, ret, caught>>

----------------------------------------------------------------------------
(* MCPVerificationSystem *)

\* the caller invokes batch_verify(namespaces, tokens, oauth_token)
CallBatchVerify ==
    /\ pc = "idle"
    /\ \E nss \in SeqsUpTo(BatchNamespaces, MaxBatch), tks \in TokenMaps,
          oauth \in OptOAuth :
         /\ namespaces' = nss
         /\ tokens' = tks
         /\ cur' = [NoCall EXCEPT !.oauth_token = oauth]
    /\ entry' = "batch_verify"
    /\ idx' = 1
    /\ results' = <<>>
    /\ pc' = "loop"
    /\ UNCHANGED <<frame, ret, raised, caught, netlog, clock, drawn, verifiers>>

\* for namespace in namespaces: look the token up and call verify_namespace
BatchNext ==
    /\ pc = "loop"
    /\ idx <= Len(namespaces)
    /\ cur' = [namespace |-> namespaces[idx],
               verification_token |-> TokenLookup(tokens, namespaces[idx]),
               oauth_token |-> cur.oauth_token]
    /\ frame' = NoFrame
    /\ caught' = None
    /\ pc' = "verify"
    /\ UNCHANGED <<entry, namespaces, tokens, idx, results, ret, raised,
                   netlog, clock, drawn, verifiers>>

\* return results
BatchReturn ==
    /\ pc = "loop"
    /\ idx > Len(namespaces)
    /\ ret' = Some(results)
    /\ pc' = "done"
    /\ UNCHANGED <<entry, namespaces, tokens, idx, results, cur, frame,
                   raised, caught, netlog, clock, drawn, verifiers>>

\* the registry files the command line is given: one that cannot be read or
\* parsed, or one with namespace examples and scope formats; a placeholder
\* of a format is one element of the string
FmtUser == <<"i", "o", ".", "g", "i", "t", "h", "u", "b", ".", "{username}">>
FmtOrg == <<"i", "o", ".", "g", "i", "t", "h", "u", "b", ".", "{orgname}", ".", "t">>
FmtCompany == <<"c", "o", "m", ".", "{company}">>
Unreadable == [readable |-> FALSE]
Registry(examples, formats) ==
    [readable |-> TRUE, namespace_example |-> examples, formats |-> formats]
Registries ==
    {Unreadable} \cup
    {Registry(examples, formats) :
        examples \in SeqsUpTo(BatchNamespaces, MaxBatch),
        formats \in {<<>>, <<FmtUser>>, <<FmtOrg, FmtCompany>>}}

\* str.replace of a placeholder
replace(str, old, new) == [i \in DOMAIN str |-> IF str[i] = old THEN new ELSE str[i]]
\* the example namespace load_registry_namespaces makes of a scope format,
\* none when the format has none of the three placeholders
FormatExample(format_str) ==
    IF Contains(format_str, "{username}")
    THEN Some(replace(format_str, "{username}", "example-user"))
    ELSE IF Contains(format_str, "{orgname}")
    THEN Some(replace(format_str, "{orgname}", "example-org"))
    ELSE IF Contains(format_str, "{company}")
    THEN Some(replace(format_str, "{company}", "example-company"))
    ELSE None
\* list(set(namespaces)): the members once each, in an order the set decides
ListOfSet(S) ==
    {q \in [1..Cardinality(S) -> S] : \A i, j \in DOMAIN q : i # j => q[i] # q[j]}

\* the lists load_registry_namespaces(registry_file) can return
load_registry_namespaces(registry) ==
    IF ~registry.readable THEN {<<>>}
    ELSE ListOfSet({registry.namespace_example[i] :
                        i \in DOMAIN registry.namespace_example}
                   \cup UNION {FormatExample(registry.formats[i]) :
                                  i \in DOMAIN registry.formats})

\* the command line with --batch: the namespaces of the registry file go to
\* batch_verify(namespaces), whose results it prints
MainBatch ==
    /\ pc = "idle"
    /\ \E registry \in Registries :
         namespaces' \in load_registry_namespaces(registry)
    /\ tokens' = None
    /\ cur' = NoCall
    /\ entry' = "main_batch"
    /\ idx' = 1
    /\ results' = <<>>
    /\ pc' = "loop"
    /\ UNCHANGED <<frame, ret, raised, caught, netlog, clock, drawn, verifiers>>

\* the caller invokes verify_namespace(namespace, verification_token, oauth_token)
CallVerifyNamespace ==
    /\ pc = "idle"
    /\ \E ns \in Namespaces, tok \in OptTokens, oauth \in OptOAuth :
         cur' = [namespace |-> ns, verification_token |-> tok,
                 oauth_token |-> oauth]
    /\ entry' = "verify_namespace"
    /\ pc' = "verify"
    /\ UNCHANGED <<namespaces, tokens, idx, results, frame, ret, raised,
                   caught, netlog, clock, drawn, verifiers>>

\* verify_namespace up to the delegation
Dispatch ==
    /\ pc = "verify"
    /\ LET d == dispatch(cur.namespace, cur.verification_token, cur.oauth_token) IN
       /\ frame' = [NoFrame EXCEPT !.method = d.method]
       /\ IF d.kind = "return"
          THEN DispatcherReturn(d.value)
          ELSE /\ pc' = d.to
               /\ UNCHANGED <<results, idx, ret, raised>>
    /\ UNCHANGED <<entry, namespaces, tokens, cur, caught, netlog, clock,
                   drawn, verifiers>>

----------------------------------------------------------------------------
(* GitHubOAuthVerifier *)

\* the caller invokes GitHubOAuthVerifier.verify_namespace directly
CallGitHubVerify ==
    /\ pc = "idle"
    /\ \E ns \in Namespaces, oauth \in OptOAuth :
         cur' = [NoCall EXCEPT !.namespace = ns, !.oauth_token = oauth]
    /\ entry' = "github"
    /\ pc' = "github_verify"
    /\ UNCHANGED <<namespaces, tokens, idx, results, frame, ret, raised,
                   caught, netlog, clock, drawn, verifiers>>

\* verify_namespace up to its first request: prefix check, token, subject
GitHubVerifyNamespace ==
    /\ pc = "github_verify"
    /\ LET parsed == parse_namespace(cur.namespace) IN
       IF parsed.kind = "invalid"
       THEN /\ VerifierReturn(GitHubInvalidFormat(cur.namespace))
            /\ UNCHANGED <<frame, clock, drawn>>
       ELSE \E timestamp \in clock..MaxClock :
              /\ clock' = timestamp
              /\ drawn' = drawn + 1
              /\ frame' = [frame EXCEPT
                    !.verification_token =
                        generate_verification_token(cur.namespace, timestamp,
                                                    token_hex(drawn)),
                    !.subject = parsed.subject]
              /\ pc' = parsed.kind
              /\ UNCHANGED <<results, idx, ret, raised, caught>>
    /\ UNCHANGED <<entry, namespaces, tokens, cur, netlog, verifiers>>

\* verify_namespace from the return of verify_github_user or
\* verify_github_organization on
GitHubFinish(outcome) ==
    IF outcome.kind = "raise"
    THEN /\ VerifierRaise(outcome.exc)
         /\ UNCHANGED clock
    ELSE IF ~outcome.success
    THEN /\ VerifierReturn(GitHubFailure(cur.namespace, frame.verification_token,
                                         outcome.data))
         /\ UNCHANGED clock
    ELSE \E now \in clock..MaxClock :
           /\ clock' = now
           /\ VerifierReturn(GitHubSuccess(cur.namespace, frame.verification_token,
                                 now, verifiers.github.validity_period))

\* a step of verify_github_organization: on to the next request, or out
GitHubContinue(outcome, response) ==
    IF outcome.kind = "goto"
    THEN /\ pc' = outcome.next
         /\ frame' = [Answered(response) EXCEPT !.user_data = outcome.user_data]
         /\ UNCHANGED <<results, idx, ret, raised, caught, clock>>
    ELSE /\ GitHubFinish(outcome)
         /\ frame' = Answered(response)

\* verify_github_user: GET /user
GitHubUserRequest ==
    /\ pc = "gh_user"
    /\ netlog' = Append(netlog, Request("github", <<"/user">>))
    /\ \E response \in UserResponses :
         /\ GitHubFinish(verify_github_user(frame.subject, response))
         /\ frame' = Answered(response)
    /\ UNCHANGED <<entry, namespaces, tokens, cur, drawn, verifiers>>

\* verify_github_organization: GET /user
GitHubOrgUserRequest ==
    /\ pc = "gh_org_user"
    /\ netlog' = Append(netlog, Request("github", <<"/user">>))
    /\ \E response \in UserResponses :
         GitHubContinue(org_user_step(response), response)
    /\ UNCHANGED <<entry, namespaces, tokens, cur, drawn, verifiers>>

\* verify_github_organization: GET /orgs/{org_name}/members/{login}
GitHubOrgMemberRequest ==
    /\ pc = "gh_org_member"
    /\ netlog' = Append(netlog,
           Request("github", <<"/orgs/">> \o frame.subject \o <<"/members/">>
                             \o Unwrap(frame.user_data).login.v))
    /\ \E response \in MemberResponses :
         GitHubContinue(org_member_step(frame.user_data, response), response)
    /\ UNCHANGED <<entry, namespaces, tokens, cur, drawn, verifiers>>

\* verify_github_organization: GET /orgs/{org_name}
GitHubOrgInfoRequest ==
    /\ pc = "gh_org_info"
    /\ netlog' = Append(netlog, Request("github", <<"/orgs/">> \o frame.subject))
    /\ \E response \in OrgInfoResponses :
         GitHubContinue(org_info_step(frame.subject, frame.user_data, response),
                        response)
    /\ UNCHANGED <<entry, namespaces, tokens, cur, drawn, verifiers>>

----------------------------------------------------------------------------
(* DnsTxtVerifier *)

\* the caller invokes DnsTxtVerifier.verify_namespace directly
CallDnsVerify ==
    /\ pc = "idle"
    /\ \E ns \in Namespaces, tok \in OptTokens :
         cur' = [NoCall EXCEPT !.namespace = ns, !.verification_token = tok]
    /\ entry' = "dns"
    /\ pc' = "dns_verify"
    /\ UNCHANGED <<namespaces, tokens, idx, results, frame, ret, raised,
                   caught, netlog, clock, drawn, verifiers>>

DnsFailed(domain, txt_records, error) ==
    DNSVerificationResult(FALSE, cur.namespace, domain, <<>>, <<>>,
                          cur.verification_token, txt_records, error)

\* verify_namespace up to its first resolution
DnsVerifyNamespace ==
    /\ pc = "dns_verify"
    /\ LET domain == extract_domain_from_namespace(cur.namespace) IN
       /\ frame' = [frame EXCEPT !.domain = domain]
       /\ IF ~PyTrue(domain)
          THEN VerifierReturn(DnsFailed(<<>>, <<>>,
                Some(<<"Invalid namespace format for DNS TXT verification">>)))
          ELSE
            /\ pc' = "dns_get"
            /\ UNCHANGED <<results, idx, ret, raised, caught>>
    /\ UNCHANGED <<entry, namespaces, tokens, cur, netlog, clock, drawn, verifiers>>

\* verify_namespace: get_txt_records(domain)
DnsGetRequest ==
    /\ pc = "dns_get"
    /\ netlog' = Append(netlog, Request("dns", Unwrap(frame.domain)))
    /\ \E resolution \in Resolutions :
         LET got == get_txt_records(Unwrap(frame.domain), resolution) IN
         IF ~got[1]
         THEN /\ VerifierReturn(DnsFailed(Unwrap(frame.domain), <<>>, got[3]))
              /\ frame' = Answered(resolution)
         ELSE /\ frame' = [Answered(resolution) EXCEPT !.txt_records = got[2]]
              /\ pc' = "dns_verify_txt"
              /\ UNCHANGED <<results, idx, ret, raised, caught>>
    /\ UNCHANGED <<entry, namespaces, tokens, cur, clock, drawn, verifiers>>

\* a failure that reports the records of the first resolution
DnsVerifyTxtRequest_first_records ==
    /\ pc = "dns_verify_txt"
    /\ netlog' = Append(netlog, Request("dns", Unwrap(frame.domain)))
    /\ \E resolution \in Resolutions :
         LET checked == verify_txt_record(verifiers.dns.txt_record_prefix,
                            Unwrap(frame.domain), cur.verification_token,
                            resolution)
         IN  /\ frame' = Answered(resolution)
             /\ IF ~checked[1]
                THEN /\ VerifierReturn(DnsFailed(Unwrap(frame.domain),
                                                 frame.txt_records, checked[3]))
                     /\ UNCHANGED clock
                ELSE \E now \in clock..MaxClock :
                       /\ clock' = now
                       /\ VerifierReturn(DNSVerificationResult(TRUE,
                              cur.namespace, Unwrap(frame.domain), IsoZ(now),
                              IsoZ(now + verifiers.dns.validity_period),
                              cur.verification_token, checked[2], None))
    /\ UNCHANGED <<entry, namespaces, tokens, cur, drawn, verifiers>>

\* verify_namespace: verify_txt_record(domain, verification_token), which
\* resolves again, and the rest of the call
DnsVerifyTxtRequest ==
    /\ pc = "dns_verify_txt"
    /\ netlog' = Append(netlog, Request("dns", Unwrap(frame.domain)))
    /\ \E resolution \in Resolutions :
         LET checked == verify_txt_record(verifiers.dns.txt_record_prefix,
                            Unwrap(frame.domain), cur.verification_token,
                            resolution)
         IN  /\ frame' = Answered(resolution)
             /\ IF ~checked[1]
                THEN /\ VerifierReturn(DnsFailed(Unwrap(frame.domain),
                                                 checked[2], checked[3]))
                     /\ UNCHANGED clock
                ELSE \E now \in clock..MaxClock :
                       /\ clock' = now
                       /\ VerifierReturn(DNSVerificationResult(TRUE,
                              cur.namespace, Unwrap(frame.domain), IsoZ(now),
                              IsoZ(now + verifiers.dns.validity_period),
                              cur.verification_token, checked[2], None))
    /\ UNCHANGED <<entry, namespaces, tokens, cur, drawn, verifiers>>

----------------------------------------------------------------------------
(* HttpWellKnownVerifier *)

\* the caller invokes HttpWellKnownVerifier.verify_namespace directly
CallHttpVerify ==
    /\ pc = "idle"
    /\ \E ns \in Namespaces, tok \in OptTokens \cup {Some(TokDigits)} :
         cur' = [NoCall EXCEPT !.namespace = ns, !.verification_token = tok]
    /\ entry' = "http"
    /\ pc' = "http_verify"
    /\ UNCHANGED <<namespaces, tokens, idx, results, frame, ret, raised,
                   caught, netlog, clock, drawn, verifiers>>

HttpFailed(domain, endpoint_url, http_status, response_content, error) ==
    HTTPVerificationResult(FALSE, cur.namespace, domain, <<>>, <<>>,
                           cur.verification_token, endpoint_url, http_status,
                           response_content, error)

\* verify_namespace up to its first request
HttpVerifyNamespace ==
    /\ pc = "http_verify"
    /\ LET domain == http_extract_domain_from_namespace(cur.namespace) IN
       /\ frame' = [frame EXCEPT !.domain = domain]
       /\ IF ~PyTrue(domain)
          THEN VerifierReturn(HttpFailed(<<>>, <<>>, 0, <<>>,
                Some(<<"Invalid namespace format for HTTP verification">>)))
          ELSE
            /\ pc' = "http_fetch_https"
            /\ UNCHANGED <<results, idx, ret, raised, caught>>
    /\ UNCHANGED <<entry, namespaces, tokens, cur, netlog, clock, drawn, verifiers>>

\* verify_namespace after fetch_verification_endpoint returned a 200 body
HttpFetched(url, response) ==
    LET content == ParseBody(response.body) IN
    IF ~verify_token_in_response(content, cur.verification_token)
    THEN /\ VerifierReturn(HttpFailed(Unwrap(frame.domain), url, response.status,
                PyStr(content),
                Some(<<"Verification token not found in response from ">> \o url)))
         /\ UNCHANGED clock
    ELSE \E now \in clock..MaxClock :
           /\ clock' = now
           /\ VerifierReturn(HTTPVerificationResult(TRUE, cur.namespace,
                  Unwrap(frame.domain), IsoZ(now),
                  IsoZ(now + verifiers.http.validity_period),
                  cur.verification_token, url, response.status,
                  PyStr(content), None))

\* a fetch that gives up when the https attempt fails
HttpsRequest_no_fallback ==
    /\ pc = "http_fetch_https"
    /\ LET url == build_endpoint_url(Unwrap(frame.domain),
                                     verifiers.http.well_known_path, TRUE) IN
       /\ netlog' = Append(netlog, Request("http", url))
       /\ \E response \in FetchResponses :
            /\ frame' = Answered(response)
            /\ IF response.kind = "http" /\ response.status = 200
               THEN HttpFetched(url, response)
               ELSE /\ VerifierReturn(HttpFailed(Unwrap(frame.domain), <<>>, 0, <<>>,
                        Some(<<"Unable to fetch verification endpoint from either HTTP or HTTPS">>)))
                    /\ UNCHANGED clock
    /\ UNCHANGED <<entry, namespaces, tokens, cur, drawn, verifiers>>

\* fetch_verification_endpoint: GET of the https URL
HttpsRequest ==
    /\ pc = "http_fetch_https"
    /\ LET url == build_endpoint_url(Unwrap(frame.domain),
                                     verifiers.http.well_known_path, TRUE) IN
       /\ netlog' = Append(netlog, Request("http", url))
       /\ \E response \in FetchResponses :
            /\ frame' = Answered(response)
            /\ IF response.kind = "http" /\ response.status = 200
               THEN HttpFetched(url, response)
               ELSE /\ pc' = "http_fetch_http"
                    /\ UNCHANGED <<results, idx, ret, raised, caught, clock>>
    /\ UNCHANGED <<entry, namespaces, tokens, cur, drawn, verifiers>>

\* a fetch that starts over with https when the http attempt fails too
HttpRequest_starts_over ==
    /\ pc = "http_fetch_http"
    /\ LET url == build_endpoint_url(Unwrap(frame.domain),
                                     verifiers.http.well_known_path, FALSE) IN
       /\ netlog' = Append(netlog, Request("http", url))
       /\ \E response \in FetchResponses :
            /\ frame' = Answered(response)
            /\ IF response.kind = "http" /\ response.status = 200
               THEN HttpFetched(url, response)
               ELSE /\ pc' = "http_fetch_https"
                    /\ UNCHANGED <<results, idx, ret, raised, caught, clock>>
    /\ UNCHANGED <<entry, namespaces, tokens, cur, drawn, verifiers>>

\* fetch_verification_endpoint: GET of the http URL
HttpRequest ==
    /\ pc = "http_fetch_http"
    /\ LET url == build_endpoint_url(Unwrap(frame.domain),
                                     verifiers.http.well_known_path, FALSE) IN
       /\ netlog' = Append(netlog, Request("http", url))
       /\ \E response \in FetchResponses :
            /\ frame' = Answered(response)
            /\ IF response.kind = "http" /\ response.status = 200
               THEN HttpFetched(url, response)
               ELSE /\ VerifierReturn(HttpFailed(Unwrap(frame.domain), <<>>, 0, <<>>,
                        Some(<<"Unable to fetch verification endpoint from either HTTP or HTTPS">>)))
                    /\ UNCHANGED clock
    /\ UNCHANGED <<entry, namespaces, tokens, cur, drawn, verifiers>>

----------------------------------------------------------------------------

(* generate_verification_setup and the instruction generators it calls *)

\* the method argument of generate_verification_setup: omitted, empty, one
\* of the three method names, or any other string
MethodArgs ==
    {None, Some(""), Some(GITHUB_OAUTH), Some(DNS_TXT), Some(HTTP_WELL_KNOWN),
     Some("manual")}

\* DnsTxtVerifier.generate_verification_instructions
generate_verification_instructions(namespace, timestamp, rand) ==
    LET domain == extract_domain_from_namespace(namespace) IN
    IF domain = None \/ domain = Some(<<>>) THEN [error |-> <<"Invalid namespace format">>]
    ELSE LET verification_token ==
                 generate_verification_token(Unwrap(domain), timestamp, rand)
             txt_record == TxtPrefix \o <<"=">> \o verification_token
         IN  [namespace |-> namespace,
              domain |-> Unwrap(domain),
              verification_token |-> verification_token,
              txt_record |-> txt_record,
              instructions |->
                [step1 |-> <<"Add the following TXT record to your domain ">>
                           \o Unwrap(domain) \o <<":">>,
                 step2 |-> <<"Record type: TXT">>,
                 step3 |-> <<"Record name: ">> \o Unwrap(domain),
                 step4 |-> <<"Record value: ">> \o txt_record,
                 step5 |-> <<"Wait for DNS propagation (usually 5-60 minutes)">>,
                 step6 |-> <<"Run verification with: python dns-txt-verifier.py ">>
                           \o namespace \o <<" ">> \o verification_token],
              dns_commands |->
                [bind |-> <<"TXT ", Quote>> \o Unwrap(domain)
                          \o <<Quote, " ", Quote>> \o txt_record \o <<Quote>>,
                 route53 |-> <<"aws route53 change-resource-record-sets --hosted-zone-id YOUR_ZONE_ID --change-batch file://change.json">>,
                 cloudflare |-> <<"Use Cloudflare DNS management to add TXT record">>,
                 google |-> <<"Use Google Cloud DNS to add TXT record">>]]

\* HTTPWellKnownVerifier.generate_verification_instructions; timestamp is the
\* reading of the token, step7_now and example_now the two of utcnow()
http_generate_verification_instructions(namespace, timestamp, step7_now, example_now, rand) ==
    LET domain == http_extract_domain_from_namespace(namespace) IN
    IF domain = None \/ domain = Some(<<>>) THEN [error |-> <<"Invalid namespace format">>]
    ELSE LET verification_token ==
                 generate_verification_token(Unwrap(domain), timestamp, rand)
             well_known == <<"/.well-known/mcp-registry-auth">>
         IN  [namespace |-> namespace,
              domain |-> Unwrap(domain),
              verification_token |-> verification_token,
              endpoint_url |-> build_endpoint_url(Unwrap(domain), well_known, TRUE),
              instructions |->
                [step1 |-> <<"Create a file at: ">> \o Unwrap(domain) \o well_known,
                 step2 |-> <<"Add the following content to the file:">>,
                 step3 |-> <<"Content (JSON format):">>,
                 step4 |-> <<"{">>,
                 step5 |-> <<"  ", Quote, "token", Quote, ": ", Quote>>
                           \o verification_token \o <<Quote, ",">>,
                 step6 |-> <<"  ", Quote, "namespace", Quote, ": ", Quote>>
                           \o namespace \o <<Quote, ",">>,
                 step7 |-> <<"  ", Quote, "created_at", Quote, ": ", Quote>>
                           \o IsoZ(step7_now) \o <<Quote>>,
                 step8 |-> <<"}">>,
                 step9 |-> <<"Alternative (plain text): ">> \o verification_token,
                 step10 |-> <<"Ensure the file is accessible via HTTP and HTTPS">>,
                 step11 |-> <<"Run verification with: python http-well-known-verifier.py ">>
                            \o namespace \o <<" ">> \o verification_token],
              file_examples |->
                [json_example |-> [token |-> verification_token,
                                   namespace |-> namespace,
                                   created_at |-> IsoZ(example_now)],
                 txt_example |-> verification_token],
              web_server_configs |->
                [nginx |-> <<"location /.well-known/mcp-registry-auth { return 200 '">>
                           \o verification_token
                           \o <<"'; add_header Content-Type text/plain; }">>,
                 apache |-> <<"<Location /.well-known/mcp-registry-auth>\n    Header set Content-Type &quot;text/plain&quot;\n    Require all granted\n</Location>\n# File content: ">>
                            \o verification_token,
                 express |-> <<"app.get('/.well-known/mcp-registry-auth', (req, res) => res.send('">>
                             \o verification_token \o <<"'));">>,
                 python_flask |-> <<"@app.route('/.well-known/mcp-registry-auth')\ndef verification():\n    return '">>
                                  \o verification_token
                                  \o <<"', 200, {'Content-Type': 'text/plain'}">>]]

github_setup_no_token(namespace, method, token) ==
    [namespace |-> namespace,
     method |-> method,
     instructions |->
       [step1 |-> <<"Use GitHub OAuth to verify ownership">>,
        step2 |-> <<"Run: python verification-system.py ">> \o namespace
                  \o <<" --github-oauth">>,
        step3 |-> <<"Provide your GitHub OAuth token when prompted">>]]

\* the payload of the github-oauth branch of generate_verification_setup
github_setup(namespace, method, token) ==
    [namespace |-> namespace,
     method |-> method,
     verification_token |-> token,
     instructions |->
       [step1 |-> <<"Use GitHub OAuth to verify ownership">>,
        step2 |-> <<"Run: python verification-system.py ">> \o namespace
                  \o <<" --github-oauth">>,
        step3 |-> <<"Provide your GitHub OAuth token when prompted">>]]

\* the method the branches of generate_verification_setup test: the argument,
\* or the one determined from the namespace when the argument is falsy
setup_method(namespace, method) ==
    IF method = None \/ method = Some("")
    THEN determine_verification_method(namespace)
    ELSE method

generate_verification_setup(namespace, method, timestamp, step7_now, example_now, rand) ==
    LET chosen == setup_method(namespace, method) IN
    IF chosen = None THEN [error |-> <<"Unsupported namespace format">>]
    ELSE IF chosen = Some(GITHUB_OAUTH)
    THEN github_setup(namespace, GITHUB_OAUTH,
                      generate_verification_token(namespace, timestamp, rand))
    ELSE IF chosen = Some(DNS_TXT)
    THEN generate_verification_instructions(namespace, timestamp, rand)
    ELSE IF chosen = Some(HTTP_WELL_KNOWN)
    THEN http_generate_verification_instructions(namespace, timestamp,
                                                 step7_now, example_now, rand)
    ELSE [error |-> <<"Unsupported verification method">>]

\* a call of generate_verification_setup(namespace, method), whole: it makes
\* no request; a token costs one reading of the clock and one draw, the
\* HTTP payload two readings more
GenerateVerificationSetup ==
    /\ pc = "idle"
    /\ \E ns \in Namespaces, method \in MethodArgs :
       \E timestamp \in clock..MaxClock :
       \E step7_now \in timestamp..MaxClock :
       \E example_now \in step7_now..MaxClock :
         LET setup == generate_verification_setup(ns, method, timestamp,
                                                  step7_now, example_now,
                                                  token_hex(drawn))
         IN  /\ cur' = [namespace |-> ns, verification_token |-> None,
                        oauth_token |-> None, method |-> method]
             /\ ret' = Some(setup)
             /\ IF "verification_token" \in DOMAIN setup
                THEN /\ drawn' = drawn + 1
                     /\ clock' = IF "endpoint_url" \in DOMAIN setup
                                 THEN example_now ELSE timestamp
                ELSE UNCHANGED <<drawn, clock>>
    /\ entry' = "setup"
    /\ pc' = "done"
    /\ UNCHANGED <<namespaces, tokens, idx, results, frame, raised, caught,
                   netlog, verifiers>>

----------------------------------------------------------------------------
(* GitHubOAuthVerifier.verify_token_validity *)

\* hashlib.sha256(data).hexdigest(), kept as its preimage
sha256_hexdigest(data) == <<"sha256:">> \o data
\* the characters of a Python string: those of a text as they are, those of
\* a hex digest its 64 digits, each known by the preimage and its position
Chars(s) ==
    IF s # <<>> /\ Head(s) = "sha256:"
    THEN [k \in 1..64 |-> ToString([of |-> Tail(s), at |-> k])]
    ELSE s
endswith(chars, suffix) ==
    /\ Len(suffix) <= Len(chars)
    /\ SubSeq(chars, Len(chars) - Len(suffix) + 1, Len(chars)) = suffix

\* a validity check that takes every token of 64 characters
verify_token_validity_length_only(verification_token, namespace) ==
    IF verification_token = None \/ Chars(Unwrap(verification_token)) = <<>>
       \/ Len(Chars(Unwrap(verification_token))) # 64
    THEN FALSE
    ELSE TRUE

verify_token_validity(verification_token, namespace) ==
    IF verification_token = None \/ Chars(Unwrap(verification_token)) = <<>>
       \/ Len(Chars(Unwrap(verification_token))) # 64
    THEN FALSE
    ELSE LET expected_pattern == SubSeq(Chars(sha256_hexdigest(namespace)), 1, 16)
         IN  endswith(Chars(Unwrap(verification_token)), expected_pattern)

\* the tokens handed to verify_token_validity, besides generated ones: none,
\* the empty one, short ones, and texts of 63 and 64 characters, one of them
\* ending with the first 16 digits of the digest of namespace
Zeros(n) == [k \in 1..n |-> "0"]
HandedTokens(namespace) ==
    {None, Some(<<>>), Some(TokA), Some(Zeros(63)), Some(Zeros(64)),
     Some(Zeros(48) \o SubSeq(Chars(sha256_hexdigest(namespace)), 1, 16))}

\* a call of verify_token_validity(verification_token, namespace), whole, on
\* a token handed in or on one generate_verification_token just returned;
\* valid is the boolean it returns
VerifyTokenValidity ==
    /\ pc = "idle"
    /\ \E ns \in Namespaces :
         \/ \E token \in HandedTokens(ns) :
              /\ cur' = [NoCall EXCEPT !.namespace = ns, !.verification_token = token]
              /\ ret' = Some([valid |-> verify_token_validity(token, ns)])
              /\ UNCHANGED <<clock, drawn, frame>>
         \/ \E subject \in {ns, NsUser}, timestamp \in clock..MaxClock :
              LET token == generate_verification_token(subject, timestamp,
                                                       token_hex(drawn))
              IN  /\ clock' = timestamp
                  /\ drawn' = drawn + 1
                  /\ frame' = [frame EXCEPT !.subject = subject]
                  /\ cur' = [NoCall EXCEPT !.namespace = ns,
                                           !.verification_token = Some(token)]
                  /\ ret' = Some([valid |-> verify_token_validity(Some(token), ns)])
    /\ entry' = "token_validity"
    /\ pc' = "done"
    /\ UNCHANGED <<namespaces, tokens, idx, results, raised, caught, netlog,
                   verifiers>>

Next ==
    \/ CallBatchVerify
    \/ BatchNext
    \/ BatchReturn
    \/ CallVerifyNamespace
    \/ Dispatch
    \/ CallGitHubVerify
    \/ GitHubVerifyNamespace
    \/ GitHubUserRequest
    \/ GitHubOrgUserRequest
    \/ GitHubOrgMemberRequest
    \/ GitHubOrgInfoRequest
    \/ CallDnsVerify
    \/ DnsVerifyNamespace
    \/ DnsGetRequest
    \/ DnsVerifyTxtRequest
    \/ CallHttpVerify
    \/ HttpVerifyNamespace
    \/ HttpsRequest
    \/ HttpRequest
    \/ GenerateVerificationSetup
    \/ VerifyTokenValidity
    \/ MainBatch

Spec == Init /\ [][Next]_vars

\* the steps of a call that is under way: the code of a call runs on without
\* waiting for anything but the answer of its blocking requests
Running ==
    \/ BatchNext
    \/ BatchReturn
    \/ Dispatch
    \/ GitHubVerifyNamespace
    \/ GitHubUserRequest
    \/ GitHubOrgUserRequest
    \/ GitHubOrgMemberRequest
    \/ GitHubOrgInfoRequest
    \/ DnsVerifyNamespace
    \/ DnsGetRequest
    \/ DnsVerifyTxtRequest
    \/ HttpVerifyNamespace
    \/ HttpsRequest
    \/ HttpRequest

\* every request gets its answer or its timeout, and the thread of a call
\* that is under way is never held up
FairSpec == Spec /\ WF_vars(Running)

----------------------------------------------------------------------------
(* Properties *)

\* s is p followed by some string
Prefixed(s, p) == Len(p) <= Len(s) /\ \A k \in 1..Len(p) : s[k] = p[k]
GitHubStyle(ns) == Prefixed(ns, <<"i", "o", ".", "g", "i", "t", "h", "u", "b", ".">>)
DomainStyle(ns) ==
    \/ Prefixed(ns, <<"c", "o", "m", ".">>)
    \/ Prefixed(ns, <<"o", "r", "g", ".">>)
    \/ Prefixed(ns, <<"n", "e", "t", ".">>)
Absent(secret) == secret \in {None, Some(<<>>)}

ViaDispatcher == entry \in {"batch_verify", "verify_namespace"}
GitHubPcs == {"github_verify", "gh_user", "gh_org_user", "gh_org_member", "gh_org_info"}
DnsPcs == {"dns_verify", "dns_get", "dns_verify_txt"}
HttpPcs == {"http_verify", "http_fetch_https", "http_fetch_http"}

\* the token the mapping of batch_verify holds for entry i
MappingToken(i) ==
    IF tokens = None THEN None
    ELSE IF namespaces[i] \in DOMAIN Unwrap(tokens)
         THEN Some(Unwrap(tokens)[namespaces[i]])
         ELSE None

\* the calls of MCPVerificationSystem.verify_namespace that have returned:
\* arguments and result (i is the position in the batch, 0 for a single call)
DispatcherCalls ==
    IF entry = "verify_namespace"
    THEN IF pc = "done"
         THEN {[i |-> 0, namespace |-> cur.namespace,
                token |-> cur.verification_token, oauth |-> cur.oauth_token,
                result |-> Unwrap(ret)]}
         ELSE {}
    ELSE IF entry = "batch_verify"
    THEN {[i |-> i, namespace |-> namespaces[i], token |-> MappingToken(i),
           oauth |-> cur.oauth_token, result |-> results[i]] :
          i \in 1..Len(results)}
    ELSE {}

\* the requests issued for entry i
RequestsOf(i) == {k \in DOMAIN netlog : netlog[k].entry = i}

\* r is a failure the dispatcher built itself for namespace ns
OwnFailure(r, ns, method, message) ==
    /\ r.namespace = ns
    /\ r.success = FALSE
    /\ r.verification_method = method
    /\ r.error_message = Some(message)
    /\ r.details = {}

\* the dispatcher has determined the method of cur.namespace
MethodDetermined ==
    /\ ViaDispatcher
    /\ pc \notin {"idle", "verify"}
    /\ entry = "batch_verify" /\ pc \in {"loop", "done"} => idx > 1

\* C1: determine_verification_method returns GITHUB_OAUTH exactly for the
\* namespaces that start with "io.github.", DNS_TXT exactly for those that
\* start with "com.", "org." or "net.", None for every other string, and
\* never HTTP_WELL_KNOWN.
C1_MethodByPrefix ==
    MethodDetermined =>
        /\ frame.method = Some(GITHUB_OAUTH) <=> GitHubStyle(cur.namespace)
        /\ frame.method = Some(DNS_TXT) <=> DomainStyle(cur.namespace)
        /\ frame.method = None <=>
               ~GitHubStyle(cur.namespace) /\ ~DomainStyle(cur.namespace)
        /\ frame.method # Some(HTTP_WELL_KNOWN)

C1_Witness ==
    /\ MethodDetermined
    /\ cur.namespace = NsNet
    /\ frame.method = Some(DNS_TXT)

\* C2: for a namespace no method applies to, verify_namespace returns a failed
\* result with method "none" and the unsupported-namespace-format error,
\* whatever secrets are passed, and no request is issued during the call.
C2_UnsupportedFailsOffline ==
    /\ \A c \in DispatcherCalls :
         determine_verification_method(c.namespace) = None =>
             /\ OwnFailure(c.result, c.namespace, "none",
                           <<"Unsupported namespace format">>)
             /\ RequestsOf(c.i) = {}
    /\ ViaDispatcher /\ determine_verification_method(cur.namespace) = None =>
           /\ pc \notin GitHubPcs \cup DnsPcs \cup HttpPcs
           /\ RequestsOf(idx) = {}

C2_Witness ==
    \E c \in DispatcherCalls :
        /\ c.namespace = NsOther
        /\ c.token = Some(TokA)
        /\ c.oauth = Some(OAuthTok)

\* C3: when the secret of the selected method is not supplied, verify_namespace
\* returns the failure carrying the missing-credential or missing-token error,
\* no verifier is invoked and no request is issued.
C3_MissingSecretFailsOffline ==
    /\ \A c \in DispatcherCalls :
         /\ GitHubStyle(c.namespace) /\ Absent(c.oauth) =>
                /\ OwnFailure(c.result, c.namespace, "github-oauth",
                       <<"OAuth token required for GitHub verification">>)
                /\ RequestsOf(c.i) = {}
         /\ DomainStyle(c.namespace) /\ Absent(c.token) =>
                /\ OwnFailure(c.result, c.namespace, "dns-txt",
                       <<"Verification token required for DNS verification">>)
                /\ RequestsOf(c.i) = {}
    /\ ViaDispatcher /\ pc \in GitHubPcs => ~Absent(cur.oauth_token)
    /\ ViaDispatcher /\ pc \in DnsPcs \cup HttpPcs => ~Absent(cur.verification_token)

C3_Witness ==
    /\ \E c \in DispatcherCalls :
         c.namespace = NsUser /\ c.oauth = Some(<<>>) /\ c.token = Some(TokA)
    /\ pc = "done"

\* the results of the verifiers called directly
DirectResults ==
    IF entry \in {"github", "dns", "http"} /\ pc = "done" THEN ret ELSE {}
\* the results the dispatcher returned, and the verifier results inside them
DispatcherResults == {c.result : c \in DispatcherCalls}
DelegateResults == UNION {r.details : r \in DispatcherResults}
\* a message with at least one character
NonEmpty(message) == \E i \in DOMAIN message : message[i] # ""
\* the text of message ends with the text of part
EndsWith(message, part) ==
    \E k \in 1..(Len(message) + 1) : SubSeq(message, k, Len(message)) = part

\* the validity period, 365 days in seconds
YearSeconds == 365 * 24 * 60 * 60
Stamped(r) ==
    \E t \in 0..clock :
        /\ r.verified_at = <<ToString(t), "Z">>
        /\ r.expires_at = <<ToString(t + YearSeconds), "Z">>
Unstamped(r) == r.verified_at = <<>> /\ r.expires_at = <<>>

\* C4: every successful result, of a verifier or of the dispatcher, has no
\* error message and expires exactly 365 days after verified_at, both stamps
\* coming from one reading of the time.
C4_SuccessStamps ==
    /\ \A r \in DirectResults : r.success => r.error_message = None /\ Stamped(r)
    /\ \A r \in DispatcherResults : r.success => r.error_message = None /\ Stamped(r)
    /\ \A r \in DelegateResults : r.success => r.error_message = None /\ Stamped(r)

C4_Witness ==
    /\ entry = "batch_verify"
    /\ pc = "done"
    /\ clock > 0
    /\ \E c \in DispatcherCalls :
         c.result.success /\ c.result.verification_method = GITHUB_OAUTH
    /\ \E c \in DispatcherCalls :
         c.result.success /\ c.result.verification_method = DNS_TXT

\* C5: every failed result, on every failure path of the verifiers and of the
\* dispatcher, has verified_at and expires_at both empty.
C5_FailureUnstamped ==
    /\ \A r \in DirectResults : ~r.success => Unstamped(r)
    /\ \A r \in DispatcherResults : ~r.success => Unstamped(r)
    /\ \A r \in DelegateResults : ~r.success => Unstamped(r)

C5_Witness ==
    /\ entry = "batch_verify"
    /\ pc = "done"
    /\ clock > 0
    /\ \E c \in DispatcherCalls :
         /\ ~c.result.success
         /\ c.result.verification_method = GITHUB_OAUTH
         /\ c.result.details # {}
    /\ \E c \in DispatcherCalls :
         /\ ~c.result.success
         /\ c.result.verification_method = DNS_TXT
         /\ c.result.details # {}

\* C6: a result of the dispatcher has a non-empty error message if and only
\* if it is a failure.
C6_MessageIffFailure ==
    \A r \in DispatcherResults :
        (r.error_message # None /\ NonEmpty(Unwrap(r.error_message)))
            <=> ~r.success

C6_Witness ==
    /\ \E r \in DispatcherResults : r.success
    /\ \E r \in DispatcherResults : ~r.success /\ r.details # {}

\* the result of the dispatcher call that ended last
LastResult == IF entry = "batch_verify" THEN results[Len(results)] ELSE Unwrap(ret)

\* C7: an exception that leaves a verifier during a delegation is not
\* propagated: the dispatcher returns a failure for the input namespace with
\* the tag of the selected method and a message that contains the exception's.
C7_ExceptionContained ==
    ViaDispatcher =>
        /\ raised = None
        /\ caught # None =>
               /\ pc \in {"loop", "done"}
               /\ LastResult.namespace = cur.namespace
               /\ LastResult.success = FALSE
               /\ LastResult.verification_method =
                      (IF GitHubStyle(cur.namespace) THEN "github-oauth" ELSE "dns-txt")
               /\ LastResult.error_message # None
               /\ EndsWith(Unwrap(LastResult.error_message), Unwrap(caught))
               /\ Len(Unwrap(LastResult.error_message)) > Len(Unwrap(caught))

C7_Witness ==
    /\ ViaDispatcher
    /\ caught = Some(<<"'login'">>)
    /\ cur.namespace = NsOrg

\* the requests are logged entry after entry
LogInOrder ==
    \A k \in 1..(Len(netlog) - 1) : netlog[k].entry <= netlog[k + 1].entry

\* C8: batch_verify returns one result per entry, in input order, each for
\* its own namespace with the token the mapping holds for it (none when the
\* mapping is absent or lacks the key), and entry i is finished before any
\* work for entry i + 1 starts.
C8_BatchInOrder ==
    entry = "batch_verify" =>
        /\ Len(results) <= Len(namespaces)
        /\ pc = "done" => ret = Some(results) /\ Len(results) = Len(namespaces)
        /\ \A i \in 1..Len(results) :
             /\ results[i].namespace = namespaces[i]
             /\ DomainStyle(namespaces[i]) =>
                    IF Absent(MappingToken(i))
                    THEN results[i].details = {}
                    ELSE /\ results[i].details # {}
                         /\ results[i].verification_token = MappingToken(i)
        /\ LogInOrder
        /\ \A k \in DOMAIN netlog : netlog[k].entry \in 1..(Len(results) + 1)
        /\ pc \in {"loop", "done"} =>
               \A k \in DOMAIN netlog : netlog[k].entry <= Len(results)
        /\ pc \notin {"loop", "done"} => idx = Len(results) + 1

C8_Witness ==
    /\ entry = "batch_verify"
    /\ pc = "done"
    /\ namespaces = <<NsCom, NsCom>>
    /\ tokens # None
    /\ RequestsOf(1) # {}
    /\ RequestsOf(2) # {}

\* (success, error_message) of one verify_namespace(ns, tok, oauth) whose
\* requests are answered by resps, in order
GitHubOutcome(ns, resps) ==
    LET parsed == parse_namespace(ns)
        first == IF parsed.kind = "gh_user"
                 THEN verify_github_user(parsed.subject, resps[1])
                 ELSE org_user_step(resps[1])
        second == org_member_step(first.user_data, resps[2])
        third == org_info_step(parsed.subject, first.user_data, resps[3])
        last == IF first.kind # "goto" THEN first
                ELSE IF second.kind # "goto" THEN second ELSE third
    IN  IF parsed.kind = "invalid"
        THEN <<FALSE, GitHubInvalidFormat(ns).error_message>>
        ELSE IF last.kind = "raise"
        THEN <<FALSE, Some(<<"Verification system error: ">> \o last.exc)>>
        ELSE IF last.success THEN <<TRUE, None>>
        ELSE <<FALSE, Some(last.data.error)>>
DnsOutcome(ns, tok, resps) ==
    LET domain == extract_domain_from_namespace(ns)
        got == get_txt_records(Unwrap(domain), resps[1])
        checked == verify_txt_record(TxtPrefix, Unwrap(domain), tok, resps[2])
    IN  IF domain \in {None, Some(<<>>)}
        THEN <<FALSE, Some(<<"Invalid namespace format for DNS TXT verification">>)>>
        ELSE IF ~got[1] THEN <<FALSE, got[3]>>
        ELSE <<checked[1], checked[3]>>
OutcomeAlone(ns, tok, oauth, resps) ==
    LET d == dispatch(ns, tok, oauth) IN
    IF d.kind = "return" THEN <<FALSE, d.value.error_message>>
    ELSE IF d.to = "github_verify" THEN GitHubOutcome(ns, resps)
    ELSE DnsOutcome(ns, tok, resps)

\* C9: in batch_verify a failure of an entry, a contained exception included,
\* neither aborts the batch nor changes the outcome of another entry: success
\* and error_message of an entry are those of a call of its own with the same
\* responses, results already returned stay as they are, and no call writes
\* the state of a verifier.
C9_EntriesIndependent ==
    /\ [](entry = "batch_verify" =>
            /\ verifiers = Constructed
            /\ raised = None
            /\ pc = "done" => Len(results) = Len(namespaces)
            /\ pc \in {"loop", "done"} /\ idx > 1 =>
                   <<results[idx - 1].success, results[idx - 1].error_message>>
                       = OutcomeAlone(namespaces[idx - 1], MappingToken(idx - 1),
                                      cur.oauth_token, frame.responses))
    /\ [][entry = "batch_verify" =>
            \A i \in 1..Len(results) : i <= Len(results') /\ results'[i] = results[i]]_vars

C9_Witness ==
    /\ entry = "batch_verify"
    /\ pc = "done"
    /\ namespaces = <<NsUser, NsUser>>
    /\ ~results[1].success
    /\ EndsWith(Unwrap(results[1].error_message),
                <<"'list' object has no attribute 'get'">>)
    /\ results[2].success

\* C10: GitHubOAuthVerifier.verify_namespace on a namespace that does not
\* start with "io.github." returns the invalid-namespace-format failure and
\* issues no request.
C10_GitHubRejectsOtherPrefix ==
    entry = "github" /\ ~GitHubStyle(cur.namespace) =>
        /\ netlog = <<>>
        /\ pc \in {"github_verify", "done"}
        /\ pc = "done" =>
               /\ raised = None
               /\ \A r \in ret :
                    /\ r.namespace = cur.namespace
                    /\ r.success = FALSE
                    /\ r.error_message =
                         Some(<<"Invalid namespace format for GitHub OAuth verification">>)
               /\ ret # None

C10_Witness ==
    /\ entry = "github"
    /\ pc = "done"
    /\ cur.namespace = NsGhNoDot
    /\ cur.oauth_token = Some(OAuthTok)
    /\ ret # None

----------------------------------------------------------------------------
(* Properties of the GitHub verifier *)

\* the part of an "io.github." namespace after the prefix
Rest(ns) == SubSeq(ns, 11, Len(ns))
UserPath(ns) == GitHubStyle(ns) /\ \A i \in 11..Len(ns) : ns[i] # "."
OrgPath(ns) == GitHubStyle(ns) /\ \E i \in 11..Len(ns) : ns[i] = "."
\* a direct call of GitHubOAuthVerifier.verify_namespace has ended
GitHubDone == entry = "github" /\ pc = "done"
\* the result of a direct call has this success flag and this message
Ended(success, message) ==
    /\ raised = None
    /\ ret # None
    /\ \A r \in ret : r.success = success /\ r.error_message = message
\* the decoded values Python takes for false that the model's responses use
Falsy == {[t |-> "bool", v |-> <<"false">>], [t |-> "null", v |-> <<>>]}
\* the /user request was answered with a status and, for a 200, a JSON object
UserAnswered ==
    /\ Len(frame.responses) = 1
    /\ frame.responses[1].kind = "http"
    /\ frame.responses[1].status = 200 => frame.responses[1].body.t = "dict"
LoginMatches(d, user) ==
    "login" \in DOMAIN d /\ d.login = [t |-> "str", v |-> user]

\* C11 (as stated): on the user path verification succeeds if and only if
\* the request returns 200, the login equals the expected user and the active
\* flag is not false.
C11_Original ==
    GitHubDone /\ UserPath(cur.namespace) /\ UserAnswered /\ ret # None =>
        LET resp == frame.responses[1] IN
        Unwrap(ret).success <=>
            /\ resp.status = 200
            /\ LoginMatches(resp.body.d, Rest(cur.namespace))
            /\ "active" \in DOMAIN resp.body.d =>
                   resp.body.d.active # [t |-> "bool", v |-> <<"false">>]

\* C11 (amended): on the user path, when the /user request is answered with
\* a status other than 200 or with a 200 and a JSON object, the one request is
\* followed by: the API error unless the status is 200, else the username
\* mismatch unless the login equals the whole rest of the namespace
\* case-sensitively, else the inactive-account error when the active field is
\* present and false or null, else success.
C11_UserPathChecks ==
    GitHubDone /\ UserPath(cur.namespace) /\ UserAnswered =>
        LET resp == frame.responses[1] IN
        /\ Len(netlog) = 1
        /\ IF resp.status # 200
           THEN Ended(FALSE, Some(<<"GitHub API error: ", ToString(resp.status)>>))
           ELSE IF ~LoginMatches(resp.body.d, Rest(cur.namespace))
           THEN Ended(FALSE, Some(<<"Username mismatch">>))
           ELSE IF "active" \in DOMAIN resp.body.d /\ resp.body.d.active \in Falsy
           THEN Ended(FALSE, Some(<<"User account is not active">>))
           ELSE Ended(TRUE, None)

C11_Witness ==
    /\ GitHubDone
    /\ cur.namespace = NsUser
    /\ frame.responses =
         <<[kind |-> "http", status |-> 200,
            body |-> [t |-> "dict",
                      d |-> [login |-> [t |-> "str", v |-> <<"a">>],
                             active |-> [t |-> "null", v |-> <<>>]]]]>>
    /\ Ended(FALSE, Some(<<"User account is not active">>))

\* the segment of s before its first dot
RECURSIVE FirstSegment(_)
FirstSegment(s) ==
    IF s = <<>> \/ Head(s) = "." THEN <<>> ELSE <<Head(s)>> \o FirstSegment(Tail(s))
\* the requests of the organization path, in order, for the login the first
\* response carries
OrgRequests(ns) ==
    LET org == FirstSegment(Rest(ns)) IN
    <<  <<"/user">>,
        IF Len(frame.responses) >= 1 /\ frame.responses[1].kind = "http"
           /\ frame.responses[1].body.t = "dict"
           /\ "login" \in DOMAIN frame.responses[1].body.d
        THEN <<"/orgs/">> \o org \o <<"/members/">> \o frame.responses[1].body.d.login.v
        ELSE <<>>,
        <<"/orgs/">> \o org  >>
Status(response, code) == response.kind = "http" /\ response.status = code

\* C12: on the organization path the requests are current-user,
\* organization-membership, organization-metadata, in this order, for the
\* segment before the first dot; a request is issued only after the one
\* before it returned 200, then exactly 204; a membership status other than
\* 204 ends the call with the not-a-member error and no metadata request.
C12_OrgPathOrder ==
    entry = "github" /\ OrgPath(cur.namespace) =>
        /\ Len(netlog) <= 3
        /\ \A k \in DOMAIN netlog :
             /\ netlog[k].service = "github"
             /\ netlog[k].url = OrgRequests(cur.namespace)[k]
        /\ Len(netlog) \in {Len(frame.responses), Len(frame.responses) + 1}
        /\ Len(netlog) >= 2 => Status(frame.responses[1], 200)
        /\ Len(netlog) >= 3 => Status(frame.responses[2], 204)
        /\ (Len(frame.responses) >= 2 /\ frame.responses[2].kind = "http"
              /\ frame.responses[2].status # 204) =>
                /\ pc = "done"
                /\ Len(netlog) = 2
                /\ Ended(FALSE, Some(<<"Not a member of the organization">>))
        /\ (pc = "done" /\ ret # None /\ Unwrap(ret).success) =>
                /\ Len(netlog) = 3
                /\ Status(frame.responses[3], 200)

C12_Witness ==
    /\ GitHubDone
    /\ cur.namespace = NsOrg
    /\ Len(netlog) = 2
    /\ Status(frame.responses[2], 200)
    /\ Ended(FALSE, Some(<<"Not a member of the organization">>))

\* C13: a network-level error of any identity-provider request, on the user
\* path or at any step of the organization path, is not raised: the call
\* returns a failure whose message is the request-failed error with the
\* underlying message, and issues no further request.
C13_NetworkErrorContained ==
    entry = "github" =>
        \A k \in DOMAIN frame.responses :
            frame.responses[k].kind = "neterr" =>
                /\ k = Len(frame.responses)
                /\ Len(netlog) = k
                /\ pc = "done"
                /\ Ended(FALSE, Some(<<"Request failed: ">> \o frame.responses[k].msg))

C13_Witness ==
    /\ GitHubDone
    /\ OrgPath(cur.namespace)
    /\ Len(frame.responses) = 3
    /\ frame.responses[3].kind = "neterr"
    /\ Ended(FALSE, Some(<<"Request failed: ", "timed out">>))

----------------------------------------------------------------------------
(* Properties of the DNS and HTTP verifiers *)

\* a namespace without its first four characters
Rest4(ns) == SubSeq(ns, 5, Len(ns))
\* a direct call of a domain verifier has extracted the domain
DomainExtracted ==
    entry \in {"dns", "http"} /\ pc \notin {"idle", "dns_verify", "http_verify"}

\* C14: both extract_domain_from_namespace return, for the same namespace,
\* the same value: the namespace without its first four characters when it
\* starts with "com.", "org." or "net.", none otherwise; it is none exactly
\* when determine_verification_method is not DNS_TXT.
C14_ExtractDomain ==
    DomainExtracted =>
        /\ frame.domain = IF DomainStyle(cur.namespace)
                          THEN {SubSeq(cur.namespace, 5, Len(cur.namespace))}
                          ELSE {}
        /\ entry = "dns" => http_extract_domain_from_namespace(cur.namespace) = frame.domain
        /\ entry = "http" => extract_domain_from_namespace(cur.namespace) = frame.domain
        /\ frame.domain # {} <=>
               determine_verification_method(cur.namespace) = {"dns-txt"}

C14_Witness ==
    /\ entry = "dns"
    /\ pc = "done"
    /\ cur.namespace = NsUser
    /\ frame.domain = {}
    /\ ret # None

\* a direct call of DnsTxtVerifier.verify_namespace
DnsCall == entry = "dns"
\* the error get_txt_records gives for a failure class of the resolver
DnsError(kind, domain) ==
    CASE kind = "NXDOMAIN" -> <<"Domain ">> \o domain \o <<" does not exist">>
      [] kind = "NoAnswer" -> <<"No TXT records found for ">> \o domain
      [] kind = "Timeout" -> <<"DNS query timeout for ">> \o domain
      [] OTHER -> <<"DNS query failed: ", "resolver error">>
DnsFailureKinds == {"NXDOMAIN", "NoAnswer", "Timeout", "Exception"}

\* C15: a failure of the resolver is never raised: each class (NXDOMAIN, no
\* answer, timeout, any other exception) gives its own error, different from
\* the others, with an empty record list, and verify_namespace ends at once
\* with a failure that carries this error.
C15_ResolverFailureClassified ==
    /\ \A k1, k2 \in DnsFailureKinds :
         k1 # k2 => DnsError(k1, <<"b">>) # DnsError(k2, <<"b">>)
    /\ DnsCall =>
         \A k \in DOMAIN frame.responses :
             frame.responses[k].kind # "answer" =>
                 /\ frame.responses[k].kind \in DnsFailureKinds
                 /\ k = Len(frame.responses)
                 /\ Len(netlog) = k
                 /\ pc = "done"
                 /\ Ended(FALSE, Some(DnsError(frame.responses[k].kind,
                                               Rest4(cur.namespace))))
                 /\ \A r \in ret : r.txt_records = <<>> /\ r.domain = Rest4(cur.namespace)

C15_Witness ==
    /\ DnsCall
    /\ pc = "done"
    /\ cur.namespace = NsCom
    /\ Len(frame.responses) = 1
    /\ frame.responses[1].kind = "NoAnswer"
    /\ Ended(FALSE, Some(<<"No TXT records found for ", "b">>))

\* the text of a TXT rdata without the quotes around it
Unquoted(rdata) == SubSeq(rdata, 2, Len(rdata) - 1)
RecordPrefix ==
    <<"m", "c", "p", "-", "r", "e", "g", "i", "s", "t", "r", "y", "-",
      "v", "e", "r", "i", "f", "i", "c", "a", "t", "i", "o", "n", "=">>
\* the token as an f-string prints it
Printed(token) == IF token = {} THEN <<"N", "o", "n", "e">> ELSE Unwrap(token)

\* C16: when the resolution of verify_txt_record succeeds, the call succeeds
\* if and only if one of the returned records is exactly
\* "mcp-registry-verification=" followed by the expected token; otherwise it
\* fails with the token-not-found error; the result lists all the records
\* of that resolution.
C16_ExactTxtRecord ==
    (DnsCall /\ Len(frame.responses) = 2 /\ frame.responses[2].kind = "answer") =>
        LET rdatas == frame.responses[2].rdatas
            records == [i \in DOMAIN rdatas |-> Unquoted(rdatas[i])]
            hit == /\ cur.verification_token # {}
                   /\ \E i \in DOMAIN records :
                        records[i] = RecordPrefix \o Unwrap(cur.verification_token)
        IN  /\ pc = "done"
            /\ IF hit THEN Ended(TRUE, None)
               ELSE Ended(FALSE,
                      Some(<<"Verification TXT record not found. Expected: ">>
                           \o RecordPrefix \o Printed(cur.verification_token)))
            /\ \A r \in ret : r.txt_records = records

C16_Witness ==
    /\ DnsCall
    /\ pc = "done"
    /\ cur.verification_token = Some(TokA)
    /\ Len(frame.responses) = 2
    /\ frame.responses[2] = Answer(<<RdWrong, RdLonger>>)
    /\ \A r \in ret : ~r.success /\ Len(r.txt_records) = 2
    /\ ret # None

\* a direct call of HttpWellKnownVerifier.verify_namespace
HttpCall == entry = "http"
WellKnown(scheme, ns) ==
    <<scheme, "://">> \o Rest4(ns) \o <<"/.well-known/mcp-registry-auth">>
Is200(response) == response.kind = "http" /\ response.status = 200

\* C17: the fetch requests the https URL first and the http URL of the same
\* path only after the https attempt failed (timeout, connection error,
\* other request error, status other than 200); a 200 from either scheme
\* ends the requests, whether or not the token matches; when neither returns
\* 200 the call fails with the endpoint-unreachable error.
C17_HttpsThenHttp ==
    HttpCall =>
        /\ Len(netlog) <= 2
        /\ Len(netlog) = Len(frame.responses)
        /\ Len(netlog) >= 1 => netlog[1].url = WellKnown("https", cur.namespace)
        /\ Len(netlog) = 2 =>
               /\ netlog[2].url = WellKnown("http", cur.namespace)
               /\ ~Is200(frame.responses[1])
        /\ (Len(netlog) = 1 /\ ~Is200(frame.responses[1])) => pc = "http_fetch_http"
        /\ \A k \in DOMAIN frame.responses :
               Is200(frame.responses[k]) =>
                   /\ k = Len(frame.responses)
                   /\ pc = "done"
                   /\ raised = None /\ ret # None
        /\ (Len(frame.responses) = 2 /\ ~Is200(frame.responses[2])) =>
               /\ pc = "done"
               /\ Ended(FALSE,
                    Some(<<"Unable to fetch verification endpoint from either HTTP or HTTPS">>))

C17_Witness ==
    /\ HttpCall
    /\ pc = "done"
    /\ cur.verification_token = Some(TokA)
    /\ Len(netlog) = 2
    /\ frame.responses[1].kind = "neterr"
    /\ Is200(frame.responses[2])
    /\ \A r \in ret : ~r.success
    /\ ret # None

\* the call fetched a 200 body, the last response
Fetched ==
    /\ HttpCall
    /\ pc = "done"
    /\ frame.responses # <<>>
    /\ Is200(frame.responses[Len(frame.responses)])
FetchedBody == frame.responses[Len(frame.responses)].body
TokenFields == {"token", "verification_token", "mcp_registry_token", "auth_token"}
\* the decoded JSON value j is the expected token
IsToken(j, expected) ==
    IF expected = {} THEN j.t = "null"
    ELSE j = [t |-> "str", v |-> Unwrap(expected)]

\* C18: when the fetched body is a JSON object the token check succeeds if
\* and only if one of the fields token, verification_token,
\* mcp_registry_token, auth_token is present with a value equal to the
\* expected token; a token under another field name does not match.
C18_JsonFieldMatch ==
    (Fetched /\ FetchedBody.t = "dict") =>
        /\ ret # None
        /\ \A r \in ret :
             r.success <=>
                 \E f \in TokenFields \cap DOMAIN FetchedBody.d :
                     IsToken(FetchedBody.d[f], cur.verification_token)

\* the text of a body as it was sent
RawText(body) ==
    CASE body.t = "text" -> body.v
      [] body.t = "str" -> <<"\"">> \o body.v \o <<"\"">>
      [] body.t = "num" -> body.v
      [] body.t = "null" -> <<"n", "u", "l", "l">>
      [] body.t = "list" -> <<"[", "]">>

-----------------------------------------------------------------------------
(* Properties of generate_verification_setup *)

SetupDone == entry = "setup" /\ pc = "done"
\* the payload the finished setup call returned
Payload == Unwrap(ret)
\* the tokens a call starting from the constructed system can generate for subject
FreshTokens(subject) ==
    {generate_verification_token(subject, t, token_hex(0)) : t \in 0..clock}

\* C21: generate_verification_setup never issues a network call; called
\* without a method, it returns for an unsupported namespace the error
\* payload and generates no token, for an io.github. namespace a payload of
\* that namespace, method github-oauth, a verification token keyed on the
\* namespace and instructions, and for a com./org./net. namespace what the
\* DNS TXT verifier's instruction generator returns
C21_SetupWithoutMethod ==
    SetupDone =>
      /\ netlog = <<>>
      /\ raised = None
      /\ ret # None
      /\ cur.method = None =>
           LET ns == cur.namespace IN
           IF GitHubStyle(ns)
           THEN /\ DOMAIN Payload = {"namespace", "method", "verification_token",
                                     "instructions"}
                /\ Payload.namespace = ns
                /\ Payload.method = GITHUB_OAUTH
                /\ Payload.verification_token \in FreshTokens(ns)
                /\ DOMAIN Payload.instructions = {"step1", "step2", "step3"}
                /\ drawn = 1
           ELSE IF DomainStyle(ns)
           THEN \E t \in 0..clock :
                  Payload = generate_verification_instructions(ns, t, token_hex(0))
           ELSE /\ Payload = [error |-> <<"Unsupported namespace format">>]
                /\ drawn = 0

C21_Witness ==
    /\ SetupDone
    /\ cur.method = None
    /\ cur.namespace = NsCom
    /\ "txt_record" \in DOMAIN Payload
    /\ Payload.verification_token \in FreshTokens(Payload.domain)

-----------------------------------------------------------------------------
(* Further properties of the GitHub verifier *)

\* the current-user request was answered 200 with an object whose active
\* flag is false
InactiveUser ==
    /\ Len(frame.responses) >= 1
    /\ Status(frame.responses[1], 200)
    /\ frame.responses[1].body.t = "dict"
    /\ "active" \in DOMAIN frame.responses[1].body.d
    /\ frame.responses[1].body.d.active = JBool(FALSE)

\* C22: on the organization path, when the current-user response flags the
\* account as inactive, the call fails with the account-inactive error and
\* makes no membership request.
C22_OrgPathInactiveUser ==
    entry = "github" /\ OrgPath(cur.namespace) /\ InactiveUser =>
        /\ Len(netlog) = 1
        /\ pc = "done" => Ended(FALSE, Some(<<"User account is not active">>))

\* C23 (as stated): the token is generated on the success path only; a call
\* that ends in failure generates no token and its result carries none.
C23_Original ==
    GitHubDone /\ ret # None /\ ~Unwrap(ret).success =>
        /\ drawn = 0
        /\ Unwrap(ret).verification_token \in {None, Some(<<>>)}

\* C23 (amended): a call that passes the prefix check generates one token,
\* keyed on the full namespace, before its first request, and its result
\* carries that token whether it succeeds or fails; a call that fails the
\* prefix check generates none and its result carries the empty token.
C23_TokenPerAttempt ==
    entry = "github" =>
        /\ pc \in GitHubPcs \ {"github_verify"} =>
             /\ drawn = 1
             /\ frame.verification_token \in FreshTokens(cur.namespace)
        /\ pc = "done" /\ ret # None =>
             IF GitHubStyle(cur.namespace)
             THEN /\ drawn = 1
                  /\ frame.verification_token \in FreshTokens(cur.namespace)
                  /\ Unwrap(ret).verification_token = Some(frame.verification_token)
             ELSE /\ drawn = 0
                  /\ Unwrap(ret).verification_token = Some(<<>>)

C23_Witness ==
    /\ GitHubDone
    /\ cur.namespace = NsUser
    /\ Ended(FALSE, Some(<<"Username mismatch">>))
    /\ Unwrap(ret).verification_token = Some(frame.verification_token)
    /\ frame.verification_token # <<>>

-----------------------------------------------------------------------------
(* Attempts, requests and termination of a verification call *)

\* no request of the call repeats an earlier one
NoRepeat == \A i, j \in DOMAIN netlog : i # j => netlog[i] # netlog[j]

\* C24: a verification call makes a single attempt with no retry: a call of
\* DnsTxtVerifier.verify_namespace performs exactly one TXT resolution of the
\* domain, and an HTTP verification requests each scheme's URL at most once.
C24_SingleAttempt ==
    /\ DnsCall => /\ Len(netlog) <= 1
                  /\ (pc = "done" /\ DomainStyle(cur.namespace)
                        /\ Rest4(cur.namespace) # <<>>) => Len(netlog) = 1
    /\ HttpCall => NoRepeat
    /\ entry = "github" => NoRepeat

\* a direct GitHub call on a namespace that passes the prefix check is over,
\* by a return or by an exception
GitHubOver == GitHubDone /\ GitHubStyle(cur.namespace)

\* C25 (as stated): every call on a namespace that passes the prefix check
\* issues two or three requests to the identity provider, never fewer, never
\* more, and writes no local state.
C25_Original ==
    GitHubOver => Len(netlog) \in {2, 3} /\ verifiers = Constructed

\* C25 (amended): every call on a namespace that passes the prefix check
\* issues exactly one request on the user path and one, two or three on the
\* organization path (three when it succeeds), all to the identity provider,
\* and writes no local state.
C25_RequestCount ==
    /\ entry = "github" => /\ verifiers = Constructed
                           /\ Len(netlog) <= 3
                           /\ \A k \in DOMAIN netlog : netlog[k].service = "github"
    /\ GitHubOver =>
         /\ UserPath(cur.namespace) => Len(netlog) = 1
         /\ OrgPath(cur.namespace) =>
              /\ Len(netlog) \in {1, 2, 3}
              /\ (ret # None /\ Unwrap(ret).success) => Len(netlog) = 3

C25_Witness ==
    /\ GitHubOver
    /\ cur.namespace = NsUser
    /\ Len(netlog) = 1
    /\ ret # None /\ Unwrap(ret).success

\* the requests of one namespace follow one another in the log, and request
\* k is not followed by n more of the same namespace
AtMost(n, k) == k + n <= Len(netlog) => netlog[k + n].entry # netlog[k].entry
RequestsBounded ==
    \A k \in DOMAIN netlog :
        /\ k < Len(netlog) => netlog[k].entry <= netlog[k + 1].entry
        /\ AtMost(IF netlog[k].service = "github" THEN 3 ELSE 2, k)
\* a call is under way / has ended
UnderWay == pc \notin {"idle", "done"}
CallOver == pc = "done"
\* the call has ended by returning a value
Returned == CallOver /\ ret # None /\ raised = None

\* C26 (as stated): every verify_namespace call of the dispatcher and of each
\* verifier, and every batch_verify call, eventually returns a result.
C26_Original == UnderWay ~> Returned

\* C26 (amended): every call eventually ends, after at most 3 requests to
\* GitHub, 2 HTTP fetches and 2 DNS resolutions for each namespace: a call of
\* the dispatcher or of batch_verify by returning its result (one for every
\* namespace of the list), a verifier called directly by returning its
\* result or by raising the exception of a response of an unexpected shape.
C26_CallsEnd ==
    /\ [](/\ RequestsBounded
          /\ CallOver => (ret # None) # (raised # None)
          /\ (CallOver /\ ViaDispatcher) => Returned
          /\ (CallOver /\ entry = "batch_verify") =>
                 Len(Unwrap(ret)) = Len(namespaces))
    /\ UnderWay ~> CallOver

C26_Witness ==
    /\ entry = "batch_verify"
    /\ Returned
    /\ Len(namespaces) = MaxBatch
    /\ Len(netlog) >= 3

-----------------------------------------------------------------------------
(* Further properties of the DNS and HTTP verifiers *)

\* C27: whatever expected token HttpWellKnownVerifier.verify_namespace is
\* called with, absent or empty included, and whatever JSON object is
\* fetched, the call succeeds only if one of the four recognised fields is
\* present in the object with a value equal to the expected token.
C27_SuccessCarriesToken ==
    (Fetched /\ FetchedBody.t = "dict" /\ ret # None /\ Unwrap(ret).success) =>
        \E f \in TokenFields :
            /\ f \in DOMAIN FetchedBody.d
            /\ IsToken(FetchedBody.d[f], cur.verification_token)

\* the last resolution of the call, and the records it returned
LastResolution == frame.responses[Len(frame.responses)]
RecordsOf(resolution) ==
    [i \in DOMAIN resolution.rdatas |-> Unquoted(resolution.rdatas[i])]
TokenNotFound(message) ==
    message # None
    /\ Prefixed(Unwrap(message), <<"Verification TXT record not found. Expected: ">>)

\* C28: whatever the resolutions of one DnsTxtVerifier.verify_namespace call
\* answer, the same or not, the result is consistent with the last of them:
\* success only if the last resolution succeeded and contained the exact
\* verification record; a token-not-found result carries the records of the
\* last resolution; a failed last resolution gives the resolver's error and
\* an empty record list.
C28_LastResolutionDecides ==
    (DnsCall /\ pc = "done" /\ frame.responses # <<>>) =>
        /\ ret # None
        /\ \A r \in ret :
             /\ r.success =>
                  /\ LastResolution.kind = "answer"
                  /\ r.txt_records = RecordsOf(LastResolution)
                  /\ cur.verification_token # {}
                  /\ \E i \in DOMAIN r.txt_records :
                       r.txt_records[i] = RecordPrefix \o Unwrap(cur.verification_token)
             /\ TokenNotFound(r.error_message) =>
                  /\ LastResolution.kind = "answer"
                  /\ r.txt_records = RecordsOf(LastResolution)
             /\ LastResolution.kind # "answer" =>
                  /\ r.error_message = Some(DnsError(LastResolution.kind,
                                                     Rest4(cur.namespace)))
                  /\ r.txt_records = <<>>

C28_Witness ==
    /\ DnsCall /\ pc = "done"
    /\ cur.verification_token = Some(TokA)
    /\ Len(frame.responses) = 2
    /\ frame.responses[1].kind = "answer"
    /\ RdMatch \in {frame.responses[1].rdatas[i] : i \in DOMAIN frame.responses[1].rdatas}
    /\ LastResolution.kind = "answer"
    /\ LastResolution.rdatas # frame.responses[1].rdatas
    /\ \A r \in ret : TokenNotFound(r.error_message)
                      /\ r.txt_records = RecordsOf(LastResolution)

-----------------------------------------------------------------------------
(* Properties of verify_token_validity *)

ValidityDone == entry = "token_validity" /\ pc = "done"
\* the token of the call is one generate_verification_token returned for the
\* namespace of the call
GeneratedForNamespace ==
    /\ cur.verification_token # {}
    /\ drawn = 1
    /\ frame.subject = cur.namespace
    /\ Unwrap(cur.verification_token) \in FreshTokens(cur.namespace)

\* C29: a token generate_verification_token(namespace) returned is accepted
\* by verify_token_validity(token, namespace), and verify_token_validity
\* rejects every empty token and every token whose length is not 64.
C29_TokenRoundTrip ==
    ValidityDone =>
        /\ GeneratedForNamespace => Unwrap(ret).valid
        /\ (cur.verification_token = None
              \/ Len(Chars(Unwrap(cur.verification_token))) # 64) =>
                 ~Unwrap(ret).valid

-----------------------------------------------------------------------------
(* Properties of the command line *)

DispatcherFailures ==
    {<<"Unsupported namespace format">>,
     <<"OAuth token required for GitHub verification">>,
     <<"Verification token required for DNS verification">>}

\* C30: in the --batch mode of the command line batch_verify is called with
\* no token mapping and no OAuth credential: whatever the registry holds, no
\* network call is issued during the batch, no verifier is entered, and
\* every result printed is a failure for a missing credential, a missing
\* token or an unsupported format.
C30_MainBatchOffline ==
    entry = "main_batch" =>
        /\ tokens = None /\ cur.oauth_token = None /\ cur.verification_token = None
        /\ netlog = <<>>
        /\ drawn = 0
        /\ pc \in {"loop", "verify", "done"}
        /\ raised = None
        /\ \A i \in DOMAIN results :
             /\ results[i].namespace = namespaces[i]
             /\ ~results[i].success
             /\ results[i].error_message \in {Some(m) : m \in DispatcherFailures}
        /\ pc = "done" => ret = Some(results) /\ Len(results) = Len(namespaces)

C30_Witness ==
    /\ entry = "main_batch"
    /\ pc = "done"
    /\ Len(results) >= 2
    /\ \E i \in DOMAIN results :
         /\ results[i].namespace = replace(FmtUser, "{username}", "example-user")
         /\ results[i].error_message =
              Some(<<"OAuth token required for GitHub verification">>)
    /\ \E i \in DOMAIN results :
         results[i].error_message =
              Some(<<"Verification token required for DNS verification">>)

====
